---- MODULE Spec2Model ----
(***************************************************************************)
(* The VOYO track canonizer (scripts/canonizer_v4.py), the artist matcher  *)
(* that rewrites its output (scripts/match_artists_fast.py) and the first  *)
(* generation classifier (scripts/canonizer.py), as one state machine.     *)
(*                                                                         *)
(* Text is a sequence of one-character strings, so that Python's           *)
(* `a in b`, str.lower, str.strip and the regular expressions of the       *)
(* source are computed, not assumed.  A character outside ASCII is the     *)
(* string "U+XXXX" of its code point.                                      *)
(*                                                                         *)
(* A JSON value is a record [t, v]: t is "str", "num", "null", "obj" or    *)
(* "absent" (the key is not in the dict); v is the value.                  *)
(***************************************************************************)
EXTENDS Integers, Sequences, FiniteSets, TLC

\* ------------------------------------------------------------------ text

\* The letters of the inputs and tables: ASCII, and U+00C3 with its lower case U+00E3
UPPER == <<"A","B","C","D","E","F","G","H","I","J","K","L","M","N","O","P","Q","R","S","T","U","V","W","X","Y","Z","U+00C3">>

LOWER == <<"a","b","c","d","e","f","g","h","i","j","k","l","m","n","o","p","q","r","s","t","u","v","w","x","y","z","U+00E3">>

DIGITS == <<"0","1","2","3","4","5","6","7","8","9">>

Range(s) == {s[i] : i \in DOMAIN s}

Whitespace == {" ", "\t", "\n"}

\* [a-z0-9]
LowerAlnum == (Range(LOWER) \ {"U+00E3"}) \cup Range(DIGITS)

\* \w of Python's re on str: letters, digits and the underscore
WordChars == Range(LOWER) \cup Range(UPPER) \cup Range(DIGITS) \cup {"_"}

\* str.lower on one character
LowerChar(c) == IF c \in Range(UPPER) THEN LOWER[CHOOSE i \in DOMAIN UPPER : UPPER[i] = c] ELSE c

\* str.lower
Lower(s) == [i \in 1..Len(s) |-> LowerChar(s[i])]

\* Python's `a in b` on strings: a is a contiguous part of b ('' is in every string)
IsIn(a, b) == \E i \in 0..(Len(b) - Len(a)) : \A j \in 1..Len(a) : b[i + j] = a[j]

\* any(x in text for x in xs), xs a sequence of strings
AnyIn(xs, text) == \E k \in DOMAIN xs : IsIn(xs[k], text)

Min(a, b) == IF a < b THEN a ELSE b

SetMin(S) == CHOOSE x \in S : \A y \in S : x <= y

SetMax(S) == CHOOSE x \in S : \A y \in S : y <= x

\* str.strip
Strip(s) ==
  LET keep == {i \in 1..Len(s) : s[i] \notin Whitespace}
  IN  IF keep = {} THEN <<>> ELSE SubSeq(s, SetMin(keep), SetMax(keep))

IsNormChar(c) == c \in LowerAlnum \cup Whitespace

\* re.sub(r'[^a-z0-9\s]', '', s)
DropNonAlnum(s) == SelectSeq(s, IsNormChar)

SP == <<" ">>

\* ----------------------------------------------------------- JSON values

Str(s) == [t |-> "str", v |-> s]

Num(n) == [t |-> "num", v |-> n]

Null == [t |-> "null", v |-> <<>>]

Absent == [t |-> "absent", v |-> <<>>]

\* A decoded JSON object: a function on the keys it has
Obj(d) == [t |-> "obj", v |-> d]

\* dict.get(key, default) on a track: the default only when the key is absent
Get(d, key, default) == IF d[key].t = "absent" THEN default ELSE d[key]

\* dict.get(key, default) on a decoded LLM object, a function on the keys it has
GetKey(d, key, default) == IF key \in DOMAIN d THEN d[key] ELSE default

\* ------------------------------------------ canonizer_v4.py: the tables

\* canonizer_v4.py TIER_A_ARTISTS (lines 116-165)
TIER_A_ARTISTS ==
  {
    <<"b","u","r","n","a"," ","b","o","y">>,
    <<"w","i","z","k","i","d">>,
    <<"d","a","v","i","d","o">>,
    <<"t","i","w","a"," ","s","a","v","a","g","e">>,
    <<"r","e","m","a">>,
    <<"a","s","a","k","e">>,
    <<"t","e","m","s">>,
    <<"c","k","a","y">>,
    <<"a","y","r","a"," ","s","t","a","r","r">>,
    <<"f","i","r","e","b","o","y"," ","d","m","l">>,
    <<"o","m","a","h"," ","l","a","y">>,
    <<"j","o","e","b","o","y">>,
    <<"o","l","a","m","i","d","e">>,
    <<"y","e","m","i"," ","a","l","a","d","e">>,
    <<"m","r"," ","e","a","z","i">>,
    <<"t","e","k","n","o">>,
    <<"k","i","z","z"," ","d","a","n","i","e","l">>,
    <<"p","a","t","o","r","a","n","k","i","n","g">>,
    <<"w","a","n","d","e"," ","c","o","a","l">>,
    <<"d","o","n"," ","j","a","z","z","y">>,
    <<"2","b","a","b","a">>,
    <<"p","h","y","n","o">>,
    <<"f","l","a","v","o","u","r">>,
    <<"a","d","e","k","u","n","l","e"," ","g","o","l","d">>,
    <<"s","i","m","i">>,
    <<"f","a","l","z">>,
    <<"l","a","d","i","p","o","e">>,
    <<"b","l","a","q","b","o","n","e","z">>,
    <<"o","x","l","a","d","e">>,
    <<"f","e","l","a"," ","k","u","t","i">>,
    <<"f","e","m","i"," ","k","u","t","i">>,
    <<"m","a","d","e"," ","k","u","t","i">>,
    <<"s","e","u","n"," ","k","u","t","i">>,
    <<"b","l","a","c","k"," ","c","o","f","f","e","e">>,
    <<"m","a","s","t","e","r"," ","k","g">>,
    <<"d","j"," ","m","a","p","h","o","r","i","s","a">>,
    <<"k","a","b","z","a"," ","d","e"," ","s","m","a","l","l">>,
    <<"c","a","s","s","p","e","r"," ","n","y","o","v","e","s","t">>,
    <<"n","a","s","t","y"," ","c">>,
    <<"a","k","a">>,
    <<"s","j","a","v","a">>,
    <<"s","h","o"," ","m","a","d","j","o","z","i">>,
    <<"m","a","k","h","a","d","z","i">>,
    <<"f","o","c","a","l","i","s","t","i","c">>,
    <<"u","n","c","l","e"," ","w","a","f","f","l","e","s">>,
    <<"d","j"," ","z","i","n","h","l","e">>,
    <<"m","i","r","i","a","m"," ","m","a","k","e","b","a">>,
    <<"t","y","l","a">>,
    <<"d","b","n"," ","g","o","g","o">>,
    <<"l","a","d","y"," ","d","u">>,
    <<"y","o","u","n","g"," ","s","t","u","n","n","a">>,
    <<"m","a","j","o","r"," ","l","e","a","g","u","e"," ","d","j","z">>,
    <<"s","a","r","k","o","d","i","e">>,
    <<"s","t","o","n","e","b","w","o","y">>,
    <<"s","h","a","t","t","a"," ","w","a","l","e">>,
    <<"b","l","a","c","k"," ","s","h","e","r","i","f">>,
    <<"k","i","n","g"," ","p","r","o","m","i","s","e">>,
    <<"r","2","b","e","e","s">>,
    <<"k","w","e","s","i"," ","a","r","t","h","u","r">>,
    <<"k","u","a","m","i"," ","e","u","g","e","n","e">>,
    <<"k","i","d","i">>,
    <<"e","f","y","a">>,
    <<"b","e","c","c","a">>,
    <<"g","y","a","k","i","e">>,
    <<"a","m","a","a","r","a","e">>,
    <<"d","a","r","k","o","v","i","b","e","s">>,
    <<"j","o","e","y"," ","b">>,
    <<"e",".","l">>,
    <<"d","i","a","m","o","n","d"," ","p","l","a","t","n","u","m","z">>,
    <<"s","a","u","t","i"," ","s","o","l">>,
    <<"h","a","r","m","o","n","i","z","e">>,
    <<"r","a","y","v","a","n","n","y">>,
    <<"a","l","i"," ","k","i","b","a">>,
    <<"z","u","c","h","u">>,
    <<"m","b","o","s","s","o">>,
    <<"n","a","n","d","y">>,
    <<"v","a","n","e","s","s","a"," ","m","d","e","e">>,
    <<"j","u","x">>,
    <<"a","l","i","k","i","b","a">>,
    <<"n","y","a","s","h","i","n","s","k","i">>,
    <<"k","h","a","l","i","g","r","a","p","h"," ","j","o","n","e","s">>,
    <<"o","t","i","l","e"," ","b","r","o","w","n">>,
    <<"n","v","i","i","r","i">>,
    <<"b","i","e","n">>,
    <<"e","d","d","y"," ","k","e","n","z","o">>,
    <<"j","o","s","e"," ","c","h","a","m","e","l","e","o","n","e">>,
    <<"b","e","b","e"," ","c","o","o","l">>,
    <<"f","a","l","l","y"," ","i","p","u","p","a">>,
    <<"k","o","f","f","i"," ","o","l","o","m","i","d","e">>,
    <<"f","e","r","r","e"," ","g","o","l","a">>,
    <<"i","n","n","o","s","s"," ","b">>,
    <<"w","e","r","r","a","s","o","n">>,
    <<"p","a","p","a"," ","w","e","m","b","a">>,
    <<"a","w","i","l","o"," ","l","o","n","g","o","m","b","a">>,
    <<"l","o","k","u","a"," ","k","a","n","z","a">>,
    <<"h","e","r","i","t","i","e","r"," ","w","a","t","a","n","a","b","e">>,
    <<"y","o","u","s","s","o","u"," ","n","d","o","u","r">>,
    <<"s","a","l","i","f"," ","k","e","i","t","a">>,
    <<"a","n","g","e","l","i","q","u","e"," ","k","i","d","j","o">>,
    <<"m","a","n","u"," ","d","i","b","a","n","g","o">>,
    <<"m","a","g","i","c"," ","s","y","s","t","e","m">>,
    <<"d","j"," ","a","r","a","f","a","t">>,
    <<"s","e","r","g","e"," ","b","e","y","n","a","u","d">>,
    <<"t","o","o","f","a","n">>,
    <<"o","u","m","o","u"," ","s","a","n","g","a","r","e">>,
    <<"a","m","a","d","o","u"," ","&"," ","m","a","r","i","a","m">>,
    <<"t","i","n","a","r","i","w","e","n">>,
    <<"d","a","m","s","o">>,
    <<"g","i","m","s">>,
    <<"m","a","i","t","r","e"," ","g","i","m","s">>,
    <<"n","i","s","k","a">>,
    <<"a","y","a"," ","n","a","k","a","m","u","r","a">>,
    <<"d","a","d","j","u">>,
    <<"b","e","y","o","n","c","e">>,
    <<"b","e","y","o","n","c","U+00C3","U+00A9">>,
    <<"r","i","h","a","n","n","a">>,
    <<"d","r","a","k","e">>,
    <<"k","e","n","d","r","i","c","k"," ","l","a","m","a","r">>,
    <<"j","a","y","-","z">>,
    <<"j","a","y"," ","z">>,
    <<"k","a","n","y","e"," ","w","e","s","t">>,
    <<"t","h","e"," ","w","e","e","k","n","d">>,
    <<"s","z","a">>,
    <<"d","o","j","a"," ","c","a","t">>,
    <<"c","a","r","d","i"," ","b">>,
    <<"n","i","c","k","i"," ","m","i","n","a","j">>,
    <<"f","u","t","u","r","e">>,
    <<"j"," ","c","o","l","e">>,
    <<"j","."," ","c","o","l","e">>,
    <<"f","r","a","n","k"," ","o","c","e","a","n">>,
    <<"c","h","i","l","d","i","s","h"," ","g","a","m","b","i","n","o">>,
    <<"b","r","u","n","o"," ","m","a","r","s">>,
    <<"u","s","h","e","r">>,
    <<"m","i","c","h","a","e","l"," ","j","a","c","k","s","o","n">>,
    <<"p","r","i","n","c","e">>,
    <<"s","t","e","v","i","e"," ","w","o","n","d","e","r">>,
    <<"m","a","r","v","i","n"," ","g","a","y","e">>,
    <<"b","o","b"," ","m","a","r","l","e","y">>,
    <<"s","e","a","n"," ","p","a","u","l">>,
    <<"s","h","a","g","g","y">>,
    <<"v","y","b","z"," ","k","a","r","t","e","l">>,
    <<"p","o","p","c","a","a","n">>,
    <<"s","p","i","c","e">>,
    <<"c","h","r","o","n","i","x","x">>,
    <<"k","o","f","f","e","e">>,
    <<"p","r","o","t","o","j","e">>,
    <<"d","a","m","i","a","n"," ","m","a","r","l","e","y">>,
    <<"b","u","j","u"," ","b","a","n","t","o","n">>,
    <<"s","t","o","r","m","z","y">>,
    <<"d","a","v","e">>,
    <<"s","k","e","p","t","a">>,
    <<"w","i","l","e","y">>,
    <<"j"," ","h","u","s">>,
    <<"c","e","n","t","r","a","l"," ","c","e","e">>,
    <<"j","o","r","j","a"," ","s","m","i","t","h">>,
    <<"l","i","t","t","l","e"," ","s","i","m","z">>,
    <<"h","e","a","d","i","e"," ","o","n","e">>,
    <<"k","a","n","o">>,
    <<"a","n","i","t","t","a">>,
    <<"l","u","d","m","i","l","l","a">>,
    <<"i","z","a">>,
    <<"s","e","u"," ","j","o","r","g","e">>,
    <<"g","i","l","b","e","r","t","o"," ","g","i","l">>,
    <<"k","i","n","g"," ","s","u","n","n","y"," ","a","d","e">>,
    <<"e","b","e","n","e","z","e","r"," ","o","b","e","y">>,
    <<"c","h","i","e","f"," ","c","o","m","m","a","n","d","e","r"," ","e","b","e","n","e","z","e","r"," ","o","b","e","y">>,
    <<"o","l","i","v","e","r"," ","d","e"," ","c","o","q","u","e">>,
    <<"o","s","a","d","e","b","e">>,
    <<"c","h","i","e","f"," ","o","s","i","t","a"," ","o","s","a","d","e","b","e">>,
    <<"f","r","a","n","c","o"," ","l","u","a","m","b","o">>,
    <<"t","a","b","u"," ","l","e","y"," ","r","o","c","h","e","r","e","a","u">>,
    <<"s","a","m"," ","m","a","n","g","w","a","n","a">>,
    <<"b","e","m","b","e","y","a"," ","j","a","z","z">>,
    <<"o","r","c","h","e","s","t","r","a"," ","b","a","o","b","a","b">>,
    <<"r","a","i","l"," ","b","a","n","d">>
  }

\* canonizer_v4.py TIER_B_ARTISTS (lines 167-186)
TIER_B_ARTISTS ==
  {
    <<"p","o","r","t","a","b","l","e">>,
    <<"s","e","y","i"," ","v","i","b","e","z">>,
    <<"z","i","n","o","l","e","e","s","k","y">>,
    <<"n","a","i","r","a"," ","m","a","r","l","e","y">>,
    <<"m","o","h","b","a","d">>,
    <<"b","e","l","l","a"," ","s","h","m","u","r","d","a">>,
    <<"l","i","l"," ","k","e","s","h">>,
    <<"y","c","e","e">>,
    <<"r","e","e","k","a","d","o"," ","b","a","n","k","s">>,
    <<"d","i","c","e"," ","a","i","l","e","s">>,
    <<"p","e","r","u","z","z","i">>,
    <<"z","l","a","t","a","n">>,
    <<"m","a","y","o","r","k","u","n">>,
    <<"d","r","e","m","o">>,
    <<"t","e","n","i">>,
    <<"n","i","n","i","o","l","a">>,
    <<"r","u","g","e","r">>,
    <<"b","u","j","u">>,
    <<"b","n","x","n">>,
    <<"m","a","g","i","x","x">>,
    <<"l","o","j","a","y">>,
    <<"v","i","c","t","o","n","y">>,
    <<"a","-","r","e","e","c","e">>,
    <<"e","m","t","e","e">>,
    <<"s","h","a","n","e"," ","e","a","g","l","e">>,
    <<"k","w","e","s","t","a">>,
    <<"b","l","x","c","k","i","e">>,
    <<"c","o","s","t","a"," ","t","i","t","c","h">>,
    <<"2","5","k">>,
    <<"r","o","u","g","e">>,
    <<"n","a","d","i","a"," ","n","a","k","a","i">>,
    <<"b","o","i","t","y">>,
    <<"m","o","o","z","l","i","e">>,
    <<"s","a","m","t","h","i","n","g"," ","s","o","w","e","t","o">>,
    <<"s","u","n","-","e","l"," ","m","u","s","i","c","i","a","n">>,
    <<"z","a","k","e","s"," ","b","a","n","t","w","i","n","i">>,
    <<"m","i"," ","c","a","s","a">>,
    <<"m","e","d","i","k","a","l">>,
    <<"s","t","r","o","n","g","m","a","n">>,
    <<"k","o","f","i"," ","k","i","n","a","a","t","a">>,
    <<"f","a","m","e","y","e">>,
    <<"k","o","f","i"," ","m","o","l","e">>,
    <<"y","a","w"," ","t","o","g">>,
    <<"o","'","k","e","n","n","e","t","h">>,
    <<"j","a","y"," ","b","a","h","d">>,
    <<"c","i","t","y"," ","b","o","y">>,
    <<"k","w","e","k","u"," ","f","l","i","c","k">>,
    <<"t","a","n","a","s","h","a"," ","d","o","n","n","a">>,
    <<"w","i","l","l","y"," ","p","a","u","l">>,
    <<"b","a","h","a","t","i">>,
    <<"a","k","o","t","h","e","e">>,
    <<"s","i","z","e"," ","8">>,
    <<"a","r","r","o","w"," ","b","w","o","y">>,
    <<"m","e","j","j","a">>,
    <<"t","r","i","o"," ","m","i","o">>,
    <<"s","s","a","r","u">>,
    <<"f","e","m","i"," ","o","n","e">>,
    <<"b","o","o","b","a">>,
    <<"p","n","l">>,
    <<"n","i","n","h","o">>,
    <<"j","u","l">>,
    <<"l","a","c","r","i","m">>,
    <<"k","a","a","r","i","s">>,
    <<"m","h","d">>,
    <<"g","r","a","d","u","r">>,
    <<"k","e","b","l","a","c","k">>,
    <<"d","a","d","j","u">>,
    <<"s","o","o","l","k","i","n","g">>
  }

\* canonizer_v4.py CULTURAL_ICONS (lines 189-203): name -> the four cultural sub-scores
CULTURAL_ICONS ==
  <<
    [name |-> <<"f","e","l","a"," ","k","u","t","i">>, historical |-> 5, social |-> 5, diasporic |-> 5, preservational |-> 5],
    [name |-> <<"m","i","r","i","a","m"," ","m","a","k","e","b","a">>, historical |-> 5, social |-> 5, diasporic |-> 5, preservational |-> 4],
    [name |-> <<"b","o","b"," ","m","a","r","l","e","y">>, historical |-> 5, social |-> 5, diasporic |-> 5, preservational |-> 4],
    [name |-> <<"y","o","u","s","s","o","u"," ","n","d","o","u","r">>, historical |-> 4, social |-> 4, diasporic |-> 4, preservational |-> 5],
    [name |-> <<"s","a","l","i","f"," ","k","e","i","t","a">>, historical |-> 4, social |-> 3, diasporic |-> 4, preservational |-> 5],
    [name |-> <<"k","i","n","g"," ","s","u","n","n","y"," ","a","d","e">>, historical |-> 5, social |-> 3, diasporic |-> 4, preservational |-> 5],
    [name |-> <<"p","a","p","a"," ","w","e","m","b","a">>, historical |-> 4, social |-> 3, diasporic |-> 4, preservational |-> 5],
    [name |-> <<"f","r","a","n","c","o"," ","l","u","a","m","b","o">>, historical |-> 5, social |-> 4, diasporic |-> 3, preservational |-> 5],
    [name |-> <<"b","e","m","b","e","y","a"," ","j","a","z","z">>, historical |-> 5, social |-> 5, diasporic |-> 3, preservational |-> 5],
    [name |-> <<"a","n","g","e","l","i","q","u","e"," ","k","i","d","j","o">>, historical |-> 4, social |-> 4, diasporic |-> 5, preservational |-> 4],
    [name |-> <<"h","u","g","h"," ","m","a","s","e","k","e","l","a">>, historical |-> 5, social |-> 5, diasporic |-> 4, preservational |-> 4],
    [name |-> <<"b","r","e","n","d","a"," ","f","a","s","s","i","e">>, historical |-> 4, social |-> 4, diasporic |-> 3, preservational |-> 4],
    [name |-> <<"l","a","d","y","s","m","i","t","h"," ","b","l","a","c","k"," ","m","a","m","b","a","z","o">>, historical |-> 4, social |-> 3, diasporic |-> 4, preservational |-> 5]
  >>

\* detect_content_type: live_indicators (lines 214-219)
live_indicators ==
  <<
    <<"l","i","v","e">>,
    <<"c","o","n","c","e","r","t">>,
    <<"p","e","r","f","o","r","m","a","n","c","e">>,
    <<"t","i","n","y"," ","d","e","s","k">>,
    <<"c","o","l","o","r","s"," ","s","h","o","w">>,
    <<"c","o","l","o","r","s"," ","s","t","u","d","i","o","s">>,
    <<"a"," ","c","o","l","o","r","s"," ","s","h","o","w">>,
    <<"g","l","i","t","c","h">>,
    <<"v","e","v","o"," ","l","i","f","t">>,
    <<"s","e","s","s","i","o","n","s">>,
    <<"l","i","v","e"," ","s","e","s","s","i","o","n">>,
    <<"a","c","o","u","s","t","i","c"," ","s","e","s","s","i","o","n">>,
    <<"o","n"," ","t","h","e"," ","l","o","t">>,
    <<"f","r","o","m"," ","s","t","u","d","i","o">>,
    <<"l","i","v","e"," ","a","t">>,
    <<"i","n"," ","s","t","u","d","i","o">>,
    <<"s","o","f","a","r"," ","s","o","u","n","d","s">>
  >>

\* detect_content_type: remix_indicators (lines 224-224)
remix_indicators ==
  <<
    <<"r","e","m","i","x">>,
    <<"r","m","x">>,
    <<"r","e","f","i","x">>,
    <<"b","o","o","t","l","e","g">>,
    <<"f","l","i","p">>,
    <<"e","d","i","t">>
  >>

\* detect_content_type: dj_mix_indicators (lines 229-233)
dj_mix_indicators ==
  <<
    <<"m","i","x">>,
    <<"s","e","t">>,
    <<"d","j"," ","s","e","t">>,
    <<"b","o","i","l","e","r"," ","r","o","o","m">>,
    <<"e","s","s","e","n","t","i","a","l"," ","m","i","x">>,
    <<"r","a","d","i","o"," ","s","h","o","w">>,
    <<"t","a","k","e","o","v","e","r">>,
    <<"g","u","e","s","t"," ","m","i","x">>,
    <<"r","e","s","i","d","e","n","c","y">>,
    <<"c","l","u","b"," ","s","e","t">>,
    <<"f","e","s","t","i","v","a","l"," ","s","e","t">>,
    <<"b","2","b">>
  >>

\* detect_content_type: the DJ tokens looked for in the artist (line 236)
known_dj_tokens ==
  <<
    <<"d","j">>,
    <<"b","l","a","c","k"," ","c","o","f","f","e","e">>,
    <<"u","n","c","l","e"," ","w","a","f","f","l","e","s">>,
    <<"m","a","j","o","r"," ","l","e","a","g","u","e">>
  >>

\* detect_content_type: compilation_indicators (lines 240-244)
compilation_indicators ==
  <<
    <<"c","o","m","p","i","l","a","t","i","o","n">>,
    <<"p","l","a","y","l","i","s","t">>,
    <<"b","e","s","t"," ","o","f">>,
    <<"g","r","e","a","t","e","s","t"," ","h","i","t","s">>,
    <<"t","o","p"," ","1","0">>,
    <<"t","o","p"," ","2","0">>,
    <<"t","o","p"," ","5","0">>,
    <<"t","o","p"," ","1","0","0">>,
    <<"n","o","n"," ","s","t","o","p">>,
    <<"n","o","n","s","t","o","p">>,
    <<"m","i","x"," ","2","0","2","4">>,
    <<"m","i","x"," ","2","0","2","5">>,
    <<"h","o","u","r","s"," ","o","f">>
  >>

\* detect_content_type: cover_indicators (lines 249-249)
cover_indicators ==
  <<
    <<"c","o","v","e","r">>,
    <<"r","e","n","d","i","t","i","o","n">>,
    <<"t","r","i","b","u","t","e">>,
    <<"v","e","r","s","i","o","n"," ","b","y">>
  >>

\* detect_content_type: instrumental_indicators (lines 254-257)
instrumental_indicators ==
  <<
    <<"i","n","s","t","r","u","m","e","n","t","a","l">>,
    <<"b","e","a","t">>,
    <<"k","a","r","a","o","k","e">>,
    <<"b","a","c","k","i","n","g"," ","t","r","a","c","k">>,
    <<"p","r","o","d"," ","b","y">>,
    <<"p","r","o","d",".">>,
    <<"t","y","p","e"," ","b","e","a","t">>,
    <<"f","r","e","e"," ","b","e","a","t">>
  >>

\* detect_content_type: slowed_indicators (lines 262-262)
slowed_indicators ==
  <<
    <<"s","l","o","w","e","d">>,
    <<"r","e","v","e","r","b">>,
    <<"c","h","o","p","p","e","d">>,
    <<"s","c","r","e","w","e","d">>
  >>

\* detect_content_type: acoustic_indicators (lines 267-267)
acoustic_indicators ==
  <<
    <<"a","c","o","u","s","t","i","c">>,
    <<"u","n","p","l","u","g","g","e","d">>,
    <<"s","t","r","i","p","p","e","d">>
  >>

\* detect_content_type: extended_indicators (lines 272-272)
extended_indicators ==
  <<
    <<"e","x","t","e","n","d","e","d">>,
    <<"c","l","u","b"," ","m","i","x">>,
    <<"r","a","d","i","o"," ","e","d","i","t">>
  >>

\* canonizer_v4.py CULTURAL_TAG_KEYWORDS (lines 304-326), in dictionary order
CULTURAL_TAG_KEYWORDS ==
  <<
    [tag |-> "anthem", keywords |-> <<<<"a","n","t","h","e","m">>, <<"n","a","t","i","o","n","a","l">>, <<"i","n","d","e","p","e","n","d","e","n","c","e">>, <<"u","n","i","t","y">>, <<"m","o","v","e","m","e","n","t">>, <<"g","i","a","n","t">>>>],
    [tag |-> "revolution", keywords |-> <<<<"r","e","v","o","l","u","t","i","o","n">>, <<"c","h","a","n","g","e">>, <<"f","i","g","h","t">>, <<"p","o","w","e","r">>, <<"s","y","s","t","e","m">>, <<"s","t","r","u","g","g","l","e">>>>],
    [tag |-> "liberation", keywords |-> <<<<"f","r","e","e","d","o","m">>, <<"f","r","e","e">>, <<"l","i","b","e","r","a","t","i","o","n">>, <<"e","m","a","n","c","i","p","a","t","i","o","n">>, <<"c","h","a","i","n","s">>>>],
    [tag |-> "protest", keywords |-> <<<<"p","r","o","t","e","s","t">>, <<"i","n","j","u","s","t","i","c","e">>, <<"p","o","l","i","c","e">>, <<"g","o","v","e","r","n","m","e","n","t">>, <<"c","o","r","r","u","p","t","i","o","n">>, <<"s","a","r","s">>, <<"e","n","d","s","a","r","s">>>>],
    [tag |-> "tradition", keywords |-> <<<<"t","r","a","d","i","t","i","o","n","a","l">>, <<"h","e","r","i","t","a","g","e">>, <<"a","n","c","e","s","t","o","r","s">>, <<"e","l","d","e","r","s">>, <<"c","u","l","t","u","r","e">>>>],
    [tag |-> "roots", keywords |-> <<<<"r","o","o","t","s">>, <<"o","r","i","g","i","n">>, <<"m","o","t","h","e","r","l","a","n","d">>, <<"h","o","m","e">>, <<"v","i","l","l","a","g","e">>, <<"h","o","m","e","l","a","n","d">>>>],
    [tag |-> "motherland", keywords |-> <<<<"a","f","r","i","c","a">>, <<"m","a","m","a"," ","a","f","r","i","c","a">>, <<"m","o","t","h","e","r","l","a","n","d">>, <<"c","o","n","t","i","n","e","n","t">>>>],
    [tag |-> "pan-african", keywords |-> <<<<"p","a","n","-","a","f","r","i","c","a","n">>, <<"u","n","i","t","e","d"," ","a","f","r","i","c","a">>, <<"o","n","e"," ","a","f","r","i","c","a">>, <<"t","o","g","e","t","h","e","r">>>>],
    [tag |-> "diaspora", keywords |-> <<<<"d","i","a","s","p","o","r","a">>, <<"a","b","r","o","a","d">>, <<"i","m","m","i","g","r","a","n","t">>, <<"o","v","e","r","s","e","a","s">>, <<"f","o","r","e","i","g","n">>>>],
    [tag |-> "migration", keywords |-> <<<<"m","i","g","r","a","t","e">>, <<"j","o","u","r","n","e","y">>, <<"l","e","a","v","i","n","g">>, <<"t","r","a","v","e","l">>, <<"c","r","o","s","s","i","n","g">>, <<"j","a","p","a">>>>],
    [tag |-> "homecoming", keywords |-> <<<<"r","e","t","u","r","n">>, <<"c","o","m","i","n","g"," ","b","a","c","k">>, <<"w","e","l","c","o","m","e"," ","h","o","m","e">>, <<"f","i","n","a","l","l","y"," ","h","o","m","e">>>>],
    [tag |-> "bridge", keywords |-> <<<<"b","r","i","d","g","e">>, <<"c","o","n","n","e","c","t">>, <<"f","u","s","i","o","n">>, <<"b","l","e","n","d">>, <<"u","n","i","t","e">>>>],
    [tag |-> "street", keywords |-> <<<<"s","t","r","e","e","t">>, <<"h","o","o","d">>, <<"b","l","o","c","k">>, <<"c","o","r","n","e","r">>, <<"t","r","a","p">>, <<"g","h","e","t","t","o">>>>],
    [tag |-> "ghetto", keywords |-> <<<<"g","h","e","t","t","o">>, <<"s","l","u","m">>, <<"s","t","r","u","g","g","l","e">>, <<"p","o","v","e","r","t","y">>, <<"s","u","r","v","i","v","e">>>>],
    [tag |-> "survival", keywords |-> <<<<"s","u","r","v","i","v","e">>, <<"s","t","r","u","g","g","l","e">>, <<"m","a","k","e"," ","i","t">>, <<"o","v","e","r","c","o","m","e">>, <<"h","u","s","t","l","e">>>>],
    [tag |-> "wedding", keywords |-> <<<<"w","e","d","d","i","n","g">>, <<"m","a","r","r","i","a","g","e">>, <<"b","r","i","d","e">>, <<"c","e","r","e","m","o","n","y">>, <<"i","y","a","w","o">>>>],
    [tag |-> "festival", keywords |-> <<<<"f","e","s","t","i","v","a","l">>, <<"p","a","r","t","y">>, <<"c","a","r","n","i","v","a","l">>, <<"c","e","l","e","b","r","a","t","i","o","n">>>>],
    [tag |-> "celebration", keywords |-> <<<<"c","e","l","e","b","r","a","t","e">>, <<"j","o","y">>, <<"h","a","p","p","y">>, <<"p","a","r","t","y">>, <<"d","a","n","c","e">>>>],
    [tag |-> "spiritual", keywords |-> <<<<"s","p","i","r","i","t">>, <<"s","o","u","l">>, <<"d","i","v","i","n","e">>, <<"g","o","d">>, <<"f","a","i","t","h">>>>],
    [tag |-> "prayer", keywords |-> <<<<"p","r","a","y","e","r">>, <<"p","r","a","y">>, <<"l","o","r","d">>, <<"w","o","r","s","h","i","p">>, <<"h","a","l","l","e","l","u","j","a","h">>>>],
    [tag |-> "healing", keywords |-> <<<<"h","e","a","l">>, <<"r","e","s","t","o","r","a","t","i","o","n">>, <<"p","e","a","c","e">>, <<"c","a","l","m">>, <<"r","e","c","o","v","e","r">>>>]
  >>

TIERS == {"A", "B", "C", "D"}

CANON_LEVELS == {"CORE", "ESSENTIAL", "DEEP_CUT", "ARCHIVE", "ECHO"}

\* ------------------------------------- canonizer_v4.py: the classifiers

\* detect_content_type with the remix test moved before the live test
detect_content_type_remix_first(title, artist, channel) ==
  LET text == Lower(title \o SP \o artist \o SP \o channel)
  IN  IF AnyIn(remix_indicators, text) THEN "remix"
      ELSE IF AnyIn(live_indicators, text) THEN "live"
      ELSE IF AnyIn(dj_mix_indicators, text) /\ AnyIn(known_dj_tokens, Lower(artist)) THEN "dj_mix"
      ELSE IF AnyIn(compilation_indicators, text) THEN "playlist_channel"
      ELSE IF AnyIn(cover_indicators, text) THEN "cover"
      ELSE IF AnyIn(instrumental_indicators, text) THEN "instrumental"
      ELSE IF AnyIn(slowed_indicators, text) THEN "slowed"
      ELSE IF AnyIn(acoustic_indicators, text) THEN "acoustic"
      ELSE IF AnyIn(extended_indicators, text) THEN "extended"
      ELSE "original"

\* detect_content_type: the first rule whose keywords occur in
\* f"{title} {artist} {channel}".lower()
detect_content_type(title, artist, channel) ==
  LET text == Lower(title \o SP \o artist \o SP \o channel)
  IN  IF AnyIn(live_indicators, text) THEN "live"
      ELSE IF AnyIn(remix_indicators, text) THEN "remix"
      ELSE IF AnyIn(dj_mix_indicators, text) /\ AnyIn(known_dj_tokens, Lower(artist)) THEN "dj_mix"
      ELSE IF AnyIn(compilation_indicators, text) THEN "playlist_channel"
      ELSE IF AnyIn(cover_indicators, text) THEN "cover"
      ELSE IF AnyIn(instrumental_indicators, text) THEN "instrumental"
      ELSE IF AnyIn(slowed_indicators, text) THEN "slowed"
      ELSE IF AnyIn(acoustic_indicators, text) THEN "acoustic"
      ELSE IF AnyIn(extended_indicators, text) THEN "extended"
      ELSE "original"

\* detect_era
detect_era(year) ==
  IF year = 0 THEN "unknown"
  ELSE IF year < 1960 THEN "pre-independence"
  ELSE IF year < 1980 THEN "independence"
  ELSE IF year < 1995 THEN "golden-age"
  ELSE IF year < 2005 THEN "transition"
  ELSE IF year < 2015 THEN "digital-dawn"
  ELSE IF year < 2020 THEN "streaming-era"
  ELSE "global-explosion"

\* detect_cultural_tags: the tags, in dictionary order, with a keyword in the text
detect_cultural_tags(text) ==
  LET lower_text == Lower(text)
      hit(e) == AnyIn(e.keywords, lower_text)
      hits == SelectSeq(CULTURAL_TAG_KEYWORDS, hit)
  IN  [i \in 1..Len(hits) |-> hits[i].tag]

DigitVal(c) == (CHOOSE i \in DOMAIN DIGITS : DIGITS[i] = c) - 1

\* re.search(r'\b(19[5-9]\d|20[0-2]\d)\b', text): the year of the leftmost
\* match, 0 for no match (None)
search_year(text) ==
  LET isYear(i) ==
        /\ i + 3 <= Len(text)
        /\ \A j \in i..(i + 3) : text[j] \in Range(DIGITS)
        /\ \/ text[i] = "1" /\ text[i + 1] = "9" /\ DigitVal(text[i + 2]) >= 5
           \/ text[i] = "2" /\ text[i + 1] = "0" /\ DigitVal(text[i + 2]) <= 2
        /\ (i = 1 \/ text[i - 1] \notin WordChars)
        /\ (i + 3 = Len(text) \/ text[i + 4] \notin WordChars)
      at == {i \in 1..Len(text) : isYear(i)}
  IN  IF at = {} THEN 0
      ELSE LET i == SetMin(at)
           IN  1000 * DigitVal(text[i]) + 100 * DigitVal(text[i + 1])
                 + 10 * DigitVal(text[i + 2]) + DigitVal(text[i + 3])

\* classify_with_patterns, lines 508-510: .lower() of a value that is None
\* raises AttributeError
patterns_raise(track) ==
  \/ Get(track, "title", Str(<<>>)).t # "str"
  \/ Get(track, "artist", Str(<<>>)).t # "str"
  \/ Get(track, "channel_title", Str(<<>>)).t # "str"

\* track.get('view_count', 0) or 0
view_count_of(track) ==
  LET x == Get(track, "view_count", Num(0))
  IN  IF x.t = "num" THEN x.v ELSE 0

\* known_artist_tier with tier C for an artist that only partially matches a
\* B-tier name
known_artist_tier_partial_c(artist, artist_normalized) ==
  IF artist_normalized \in TIER_A_ARTISTS \/ \E a \in TIER_A_ARTISTS : IsIn(a, artist) THEN "A"
  ELSE IF artist_normalized \in TIER_B_ARTISTS \/ \E a \in TIER_B_ARTISTS : IsIn(a, artist) THEN "B"
  ELSE IF \E k \in TIER_B_ARTISTS : IsIn(k, artist) \/ IsIn(artist, k) THEN "C"
       ELSE IF \E k \in TIER_A_ARTISTS : IsIn(k, artist) \/ IsIn(artist, k) THEN "A"
       ELSE "D"

\* classify_with_patterns, lines 526-545: the tier from the curated name sets
known_artist_tier(artist, artist_normalized) ==
  IF artist_normalized \in TIER_A_ARTISTS \/ \E a \in TIER_A_ARTISTS : IsIn(a, artist)
  THEN "A"
  ELSE IF artist_normalized \in TIER_B_ARTISTS \/ \E a \in TIER_B_ARTISTS : IsIn(a, artist)
  THEN "B"
  ELSE \* the two partial-match loops run one after the other: the second overwrites
       IF \E k \in TIER_B_ARTISTS : IsIn(k, artist) \/ IsIn(artist, k) THEN "B"
       ELSE IF \E k \in TIER_A_ARTISTS : IsIn(k, artist) \/ IsIn(artist, k) THEN "A"
       ELSE "D"

\* lines 528-535: craft and influence are set in the two exact-match branches only
known_artist_craft(artist, artist_normalized) ==
  IF artist_normalized \in TIER_A_ARTISTS \/ \E a \in TIER_A_ARTISTS : IsIn(a, artist)
  THEN [craft |-> 4, influence |-> 3]
  ELSE IF artist_normalized \in TIER_B_ARTISTS \/ \E a \in TIER_B_ARTISTS : IsIn(a, artist)
  THEN [craft |-> 3, influence |-> 2]
  ELSE [craft |-> 0, influence |-> 0]

\* enrichment/build_artist_master.py, CULTURAL_ICONS: the name and the default
\* tags of each icon
MASTER_CULTURAL_ICONS ==
  <<
    [name |-> <<"f","e","l","a"," ","k","u","t","i">>,
     tags |-> {"revolution", "protest", "liberation", "pan-african"}],
    [name |-> <<"m","i","r","i","a","m"," ","m","a","k","e","b","a">>,
     tags |-> {"liberation", "anthem", "pan-african"}],
    [name |-> <<"b","o","b"," ","m","a","r","l","e","y">>,
     tags |-> {"liberation", "spiritual", "pan-african"}],
    [name |-> <<"y","o","u","s","s","o","u"," ","n","d","o","u","r">>,
     tags |-> {"tradition", "roots", "motherland"}],
    [name |-> <<"s","a","l","i","f"," ","k","e","i","t","a">>,
     tags |-> {"tradition", "roots"}],
    [name |-> <<"p","a","p","a"," ","w","e","m","b","a">>,
     tags |-> {"tradition", "roots"}],
    [name |-> <<"b","e","m","b","e","y","a"," ","j","a","z","z">>,
     tags |-> {"liberation", "tradition", "pan-african"}],
    [name |-> <<"a","n","g","e","l","i","q","u","e"," ","k","i","d","j","o">>,
     tags |-> {"diaspora", "bridge", "pan-african"}],
    [name |-> <<"h","u","g","h"," ","m","a","s","e","k","e","l","a">>,
     tags |-> {"liberation", "protest"}],
    [name |-> <<"a","l","p","h","a"," ","b","l","o","n","d","y">>,
     tags |-> {"spiritual", "liberation"}],
    [name |-> <<"m","o","r","y"," ","k","a","n","t","e">>,
     tags |-> {"tradition", "bridge"}]
  >>

\* is_cultural_icon with the table taken as empty
is_cultural_icon_never(artist_normalized) == FALSE

is_cultural_icon(artist_normalized) ==
  \E k \in DOMAIN CULTURAL_ICONS : CULTURAL_ICONS[k].name = artist_normalized

icon_scores(artist_normalized) ==
  CULTURAL_ICONS[CHOOSE k \in DOMAIN CULTURAL_ICONS : CULTURAL_ICONS[k].name = artist_normalized]

\* The canon level with every threshold taken as inclusive (>=)
canon_level_of_inclusive(tier, view_count) ==
  IF tier = "A" THEN
    IF view_count >= 100000000 THEN "CORE"
    ELSE IF view_count >= 10000000 THEN "ESSENTIAL"
    ELSE IF view_count >= 1000000 THEN "DEEP_CUT"
    ELSE "ESSENTIAL"
  ELSE IF tier = "B" THEN
    IF view_count >= 50000000 THEN "CORE"
    ELSE IF view_count >= 5000000 THEN "ESSENTIAL"
    ELSE "DEEP_CUT"
  ELSE IF tier = "C" THEN
    IF view_count >= 10000000 THEN "ESSENTIAL"
    ELSE IF view_count >= 1000000 THEN "DEEP_CUT"
    ELSE "ARCHIVE"
  ELSE
    IF view_count >= 5000000 THEN "DEEP_CUT"
    ELSE IF view_count >= 100000 THEN "ARCHIVE"
    ELSE "ECHO"

\* The canon level with tier D scored on tier C's thresholds, which lets a
\* tier D track reach ESSENTIAL
canon_level_of_d_as_c(tier, view_count) ==
  IF tier = "A" THEN
    IF view_count > 100000000 THEN "CORE"
    ELSE IF view_count > 10000000 THEN "ESSENTIAL"
    ELSE IF view_count > 1000000 THEN "DEEP_CUT"
    ELSE "ESSENTIAL"
  ELSE IF tier = "B" THEN
    IF view_count > 50000000 THEN "CORE"
    ELSE IF view_count > 5000000 THEN "ESSENTIAL"
    ELSE IF view_count > 500000 THEN "DEEP_CUT"
    ELSE "DEEP_CUT"
  ELSE
    IF view_count > 10000000 THEN "ESSENTIAL"
    ELSE IF view_count > 1000000 THEN "DEEP_CUT"
    ELSE "ARCHIVE"

\* classify_with_patterns, lines 562-597: canon level from tier and views
canon_level_of(tier, view_count) ==
  IF tier = "A" THEN
    IF view_count > 100000000 THEN "CORE"
    ELSE IF view_count > 10000000 THEN "ESSENTIAL"
    ELSE IF view_count > 1000000 THEN "DEEP_CUT"
    ELSE "ESSENTIAL"
  ELSE IF tier = "B" THEN
    IF view_count > 50000000 THEN "CORE"
    ELSE IF view_count > 5000000 THEN "ESSENTIAL"
    ELSE IF view_count > 500000 THEN "DEEP_CUT"
    ELSE "DEEP_CUT"
  ELSE IF tier = "C" THEN
    IF view_count > 10000000 THEN "ESSENTIAL"
    ELSE IF view_count > 1000000 THEN "DEEP_CUT"
    ELSE "ARCHIVE"
  ELSE
    IF view_count > 5000000 THEN "DEEP_CUT"
    ELSE IF view_count > 100000 THEN "ARCHIVE"
    ELSE "ECHO"

\* lines 606-618
accessibility_of(tier) ==
  IF tier = "A" THEN [mainstream |-> 4, specialist |-> 2, educational |-> 3]
  ELSE IF tier = "B" THEN [mainstream |-> 3, specialist |-> 3, educational |-> 3]
  ELSE [mainstream |-> 2, specialist |-> 4, educational |-> 4]

\* A quotient n/d kept exact: Python computes sum / 4 and sum / 3 in floats
Ratio(n, d) == [num |-> n, den |-> d]

\* lines 620-622
cultural_overall(c) == Ratio(c.historical + c.social + c.diasporic + c.preservational, 4)

aesthetic_overall(a) == Ratio(a.innovation + a.craft + a.influence, 3)

\* lines 624-633
aesthetic_tags_of(tier, view_count, content_type, cultural_tags) ==
  (IF tier = "A" THEN {"influential"} ELSE {})
  \cup (IF tier = "A" /\ view_count > 100000000 THEN {"timeless"} ELSE {})
  \cup (IF content_type = "live" THEN {"virtuosic"} ELSE {})
  \cup (IF Range(cultural_tags) \cap {"revolution", "liberation", "protest"} # {} THEN {"lyricism"} ELSE {})

\* lines 635-640, in tenths: 0.3, or 0.7 for a known artist, plus 0.1 with views
confidence_of(tier, view_count) ==
  LET base == IF tier \in {"A", "B"} THEN 7 ELSE 3
      c == IF view_count > 0 THEN base + 1 ELSE base
  IN  IF c < 10 THEN c ELSE 10

\* classify_with_patterns: the CanonScore of a track whose text fields are strings
classify_with_patterns(track) ==
  LET title == Lower(Get(track, "title", Str(<<>>)).v)
      artist == Lower(Get(track, "artist", Str(<<>>)).v)
      channel == Lower(Get(track, "channel_title", Str(<<>>)).v)
      artist_normalized == Strip(DropNonAlnum(artist))
      view_count == view_count_of(track)
      icon == is_cultural_icon(artist_normalized)
      tier == IF icon THEN "A" ELSE known_artist_tier(artist, artist_normalized)
      ci == icon_scores(artist_normalized)
      cultural0 == IF icon
                   THEN [historical |-> ci.historical, social |-> ci.social,
                         diasporic |-> ci.diasporic, preservational |-> ci.preservational]
                   ELSE [historical |-> 0, social |-> 0, diasporic |-> 0, preservational |-> 0]
      kc == known_artist_craft(artist, artist_normalized)
      aesthetic0 == [innovation |-> 0, craft |-> kc.craft, influence |-> kc.influence]
      content_type == detect_content_type(title, artist, channel)
      cultural_tags == detect_cultural_tags(title \o SP \o artist)
      release_year == search_year(title \o SP \o channel)
  IN  [popularity |-> [view_count |-> view_count, percentile |-> Ratio(0, 100)],
       cultural_significance |-> cultural0 @@ [overall |-> cultural_overall(cultural0)],
       aesthetic_merit |-> aesthetic0 @@ [overall |-> aesthetic_overall(aesthetic0)],
       accessibility |-> accessibility_of(tier),
       release_year |-> release_year,
       era |-> detect_era(release_year),
       timelessness |-> IF tier = "A" /\ view_count > 50000000 THEN 4 ELSE 2,
       final_tier |-> tier,
       final_canon_level |-> canon_level_of(tier, view_count),
       confidence |-> confidence_of(tier, view_count),
       classified_by |-> "pattern",
       content_type |-> content_type,
       cultural_tags |-> cultural_tags,
       aesthetic_tags |-> aesthetic_tags_of(tier, view_count, content_type, cultural_tags)]

\* `if llm_result:`: a dict is true unless it is empty
truthy(llm_result) == llm_result.t = "obj" /\ DOMAIN llm_result.v # {}

\* classify_track, lines 729-740: cs.get / am.get on a value that is no dict raises
merge_raises(llm_result) ==
  /\ truthy(llm_result)
  /\ \/ "cultural_significance" \in DOMAIN llm_result.v /\ llm_result.v["cultural_significance"].t # "obj"
     \/ "aesthetic_merit" \in DOMAIN llm_result.v /\ llm_result.v["aesthetic_merit"].t # "obj"

\* classify_track, lines 667-721: the result built from the pattern score
pattern_result(track) ==
  LET pattern_score == classify_with_patterns(track)
  IN  [id |-> Get(track, "youtube_id", Str(<<>>)).v,
       title |-> Get(track, "title", Str(<<>>)).v,
       artist |-> Get(track, "artist", Str(<<>>)).v,
       channel |-> Get(track, "channel_title", Get(track, "artist", Str(<<>>))).v,
       tier |-> pattern_score.final_tier,
       canon_level |-> pattern_score.final_canon_level,
       content_type |-> pattern_score.content_type,
       view_count |-> pattern_score.popularity.view_count,
       view_percentile |-> pattern_score.popularity.percentile,
       cultural_significance |-> pattern_score.cultural_significance,
       aesthetic_merit |-> pattern_score.aesthetic_merit,
       accessibility |-> pattern_score.accessibility,
       release_year |-> pattern_score.release_year,
       era |-> pattern_score.era,
       timelessness |-> pattern_score.timelessness,
       cultural_tags |-> Range(pattern_score.cultural_tags),
       aesthetic_tags |-> pattern_score.aesthetic_tags,
       confidence |-> pattern_score.confidence,
       classified_by |-> pattern_score.classified_by,
       is_echo |-> (pattern_score.final_canon_level = "ECHO")]

\* merge_llm with 0 as the default of every sub-score the LLM object lacks
merge_llm_zero_defaults(result, llm) ==
  LET cs == GetKey(llm, "cultural_significance", [t |-> "obj", v |-> <<>>]).v
      am == GetKey(llm, "aesthetic_merit", [t |-> "obj", v |-> <<>>]).v
      pcs == result.cultural_significance
      pa == result.aesthetic_merit
      canon_level == GetKey(llm, "canon_level", result.canon_level)
      conf == result.confidence + 3
  IN  [result EXCEPT
         !.tier = GetKey(llm, "artist_tier", result.tier),
         !.canon_level = canon_level,
         !.cultural_significance =
            [historical |-> GetKey(cs, "historical", 0),
             social |-> GetKey(cs, "social", 0),
             diasporic |-> GetKey(cs, "diasporic", 0),
             preservational |-> GetKey(cs, "preservational", 0),
             overall |-> pcs.overall],
         !.aesthetic_merit =
            [innovation |-> GetKey(am, "innovation", 0),
             craft |-> GetKey(am, "craft", 0),
             influence |-> GetKey(am, "influence", 0),
             overall |-> pa.overall],
         !.cultural_tags = @ \cup GetKey(llm, "cultural_tags", {}),
         !.aesthetic_tags = @ \cup GetKey(llm, "aesthetic_tags", {}),
         !.classified_by = "hybrid",
         !.confidence = IF conf < 10 THEN conf ELSE 10,
         !.is_echo = (canon_level = "ECHO")]

\* classify_track, lines 724-750: the LLM object laid over the pattern result.
\* The two `overall` fields are not assigned here.
merge_llm(result, llm) ==
  LET cs == GetKey(llm, "cultural_significance", [t |-> "obj", v |-> <<>>]).v
      am == GetKey(llm, "aesthetic_merit", [t |-> "obj", v |-> <<>>]).v
      pcs == result.cultural_significance
      pa == result.aesthetic_merit
      canon_level == GetKey(llm, "canon_level", result.canon_level)
      conf == result.confidence + 3
  IN  [result EXCEPT
         !.tier = GetKey(llm, "artist_tier", result.tier),
         !.canon_level = canon_level,
         !.cultural_significance =
            [historical |-> GetKey(cs, "historical", pcs.historical),
             social |-> GetKey(cs, "social", pcs.social),
             diasporic |-> GetKey(cs, "diasporic", pcs.diasporic),
             preservational |-> GetKey(cs, "preservational", pcs.preservational),
             overall |-> pcs.overall],
         !.aesthetic_merit =
            [innovation |-> GetKey(am, "innovation", pa.innovation),
             craft |-> GetKey(am, "craft", pa.craft),
             influence |-> GetKey(am, "influence", pa.influence),
             overall |-> pa.overall],
         !.cultural_tags = @ \cup GetKey(llm, "cultural_tags", {}),
         !.aesthetic_tags = @ \cup GetKey(llm, "aesthetic_tags", {}),
         !.classified_by = "hybrid",
         !.confidence = IF conf < 10 THEN conf ELSE 10,
         !.is_echo = (canon_level = "ECHO")]

\* classify_track(track, llm_result), for a call that does not raise
classify_track(track, llm_result) ==
  IF truthy(llm_result) THEN merge_llm(pattern_result(track), llm_result.v)
  ELSE pattern_result(track)

\* calculate_view_percentiles.get_percentile, lines 764-769: the share of the
\* views that are no more than v, in percent; 0 for no views at all
get_percentile(views, v) ==
  LET count == Cardinality({k \in DOMAIN views : views[k] <= v})
  IN  IF views = <<>> THEN Ratio(0, 1) ELSE Ratio(100 * count, Len(views))

\* round(x, 2) with the digits after the second cut off instead of rounded
round2_down(x) == (100 * x.num) \div x.den

\* round(x, 2) in hundredths: the nearest hundredth, a tie to the even one
round2(x) ==
  LET q == (100 * x.num) \div x.den
      r == (100 * x.num) % x.den
  IN  IF 2 * r < x.den THEN q
      ELSE IF 2 * r > x.den THEN q + 1
      ELSE IF q % 2 = 0 THEN q ELSE q + 1

\* calculate_view_percentiles, lines 758-775: every record gets its
\* view_percentile, rounded to hundredths
calculate_view_percentiles(results) ==
  LET views == [k \in DOMAIN results |-> results[k].view_count]
  IN  [k \in DOMAIN results |->
        [results[k] EXCEPT !.view_percentile = Ratio(round2(get_percentile(views, results[k].view_count)), 100)]]

\* build_artist_lookup: variations (lines 32-44), name -> the main name
variations ==
  <<
    [var |-> <<"b","u","r","n","a"," ","b","o","y">>, main |-> <<"b","u","r","n","a"," ","b","o","y">>],
    [var |-> <<"b","u","r","n","a","b","o","y">>, main |-> <<"b","u","r","n","a"," ","b","o","y">>],
    [var |-> <<"b","u","r","n","a">>, main |-> <<"b","u","r","n","a"," ","b","o","y">>],
    [var |-> <<"w","i","z","k","i","d">>, main |-> <<"w","i","z","k","i","d">>],
    [var |-> <<"w","i","z"," ","k","i","d">>, main |-> <<"w","i","z","k","i","d">>],
    [var |-> <<"s","t","a","r","b","o","y">>, main |-> <<"w","i","z","k","i","d">>],
    [var |-> <<"d","a","v","i","d","o">>, main |-> <<"d","a","v","i","d","o">>],
    [var |-> <<"d","a","v","i","d"," ","a","d","e","l","e","k","e">>, main |-> <<"d","a","v","i","d","o">>],
    [var |-> <<"o","b","o">>, main |-> <<"d","a","v","i","d","o">>],
    [var |-> <<"f","e","l","a">>, main |-> <<"f","e","l","a"," ","k","u","t","i">>],
    [var |-> <<"f","e","l","a"," ","k","u","t","i">>, main |-> <<"f","e","l","a"," ","k","u","t","i">>],
    [var |-> <<"f","e","l","a"," ","a","n","i","k","u","l","a","p","o">>, main |-> <<"f","e","l","a"," ","k","u","t","i">>],
    [var |-> <<"d","i","a","m","o","n","d">>, main |-> <<"d","i","a","m","o","n","d"," ","p","l","a","t","n","u","m","z">>],
    [var |-> <<"d","i","a","m","o","n","d"," ","p","l","a","t","n","u","m","z">>, main |-> <<"d","i","a","m","o","n","d"," ","p","l","a","t","n","u","m","z">>],
    [var |-> <<"b","l","a","c","k"," ","c","o","f","f","e","e">>, main |-> <<"b","l","a","c","k"," ","c","o","f","f","e","e">>],
    [var |-> <<"b","l","a","c","k","c","o","f","f","e","e">>, main |-> <<"b","l","a","c","k"," ","c","o","f","f","e","e">>],
    [var |-> <<"t","y","l","a">>, main |-> <<"t","y","l","a">>],
    [var |-> <<"t","y","l","a"," ","s","e","e","t","h","a","l">>, main |-> <<"t","y","l","a">>]
  >>

\* ------------------------------------------- match_artists_fast.py

\* normalize_name, line 20: the words of the suffix pattern
SUFFIX_WORDS ==
  { <<"o","f","f","i","c","i","a","l">>,
    <<"m","u","s","i","c">>,
    <<"v","e","v","o">>,
    <<"r","e","c","o","r","d","s">>,
    <<"e","n","t","e","r","t","a","i","n","m","e","n","t">>,
    <<"t","o","p","i","c">> }

\* s without its leading whitespace
LStrip(s) ==
  LET keep == {k \in 1..Len(s) : s[k] \notin Whitespace}
  IN  IF keep = {} THEN <<>> ELSE SubSeq(s, SetMin(keep), Len(s))

\* s is matched whole by \s*(official|music|vevo|records|entertainment|topic|-\s*topic)
IsSuffixMatch(s) ==
  LET rest == LStrip(s)
  IN  \/ rest \in SUFFIX_WORDS
      \/ /\ Len(rest) > 0
         /\ rest[1] = "-"
         /\ LStrip(SubSeq(rest, 2, Len(rest))) = <<"t","o","p","i","c">>

\* re.sub(r'\s*(...)$', '', name): the leftmost match that ends where $ holds,
\* at the end or before a newline that ends the string, is cut out
strip_suffix(name) ==
  LET ends == {Len(name)} \cup (IF Len(name) > 0 /\ name[Len(name)] = "\n" THEN {Len(name) - 1} ELSE {})
      starts == {k \in 1..Len(name) : \E e \in ends : k <= e /\ IsSuffixMatch(SubSeq(name, k, e))}
  IN  IF starts = {} THEN name
      ELSE LET k == SetMin(starts)
               e == SetMin({x \in ends : IsSuffixMatch(SubSeq(name, k, x))})
           IN  SubSeq(name, 1, k - 1) \o SubSeq(name, e + 1, Len(name))

IsWordOrSpace(c) == c \in WordChars \cup Whitespace

\* re.sub(r'\s+', ' ', s): every run of whitespace becomes one space
collapse_whitespace(s) ==
  LET keep(k) == s[k] \notin Whitespace \/ k = 1 \/ s[k - 1] \notin Whitespace
      at == {k \in 1..Len(s) : keep(k)}
      nth(n) == CHOOSE k \in at : Cardinality({x \in at : x < k}) = n - 1
  IN  [n \in 1..Cardinality(at) |-> IF s[nth(n)] \in Whitespace THEN " " ELSE s[nth(n)]]

\* normalize_name (match_artists_fast.py)
maf_normalize_name(name) ==
  Strip(collapse_whitespace(SelectSeq(strip_suffix(Lower(name)), IsWordOrSpace)))

IsNotSpace(c) == c # " "

\* str.replace(' ', '')
remove_spaces(s) == SelectSeq(s, IsNotSpace)

\* 'A' < 'B' < 'C' as Python compares the strings
TierLess(a, b) == \/ a = "A" /\ b \in {"B", "C"}
                  \/ a = "B" /\ b = "C"

\* lookup[key] = info
Put(lookup, key, info) == (key :> info) @@ lookup

\* add_artists, lines 55-62, for one name
add_artist(lookup, name, tier, country) ==
  LET norm == maf_normalize_name(name)
      info == [tier |-> tier, original |-> name, country |-> country]
      nospace == remove_spaces(norm)
  IN  IF norm # <<>> /\ (norm \notin DOMAIN lookup \/ TierLess(tier, lookup[norm].tier))
      THEN IF nospace # norm THEN Put(Put(lookup, norm, info), nospace, info)
           ELSE Put(lookup, norm, info)
      ELSE lookup

RECURSIVE add_artists(_, _, _, _)
\* add_artists(items, tier)
add_artists(lookup, items, tier, country) ==
  IF items = <<>> THEN lookup
  ELSE add_artists(add_artist(lookup, Head(items), tier, country), Tail(items), tier, country)

RECURSIVE load_country_files(_, _)
\* build_artist_lookup, lines 47-86: the files in the order glob yields them,
\* each file's A lists, then its B lists, then its C lists
load_country_files(lookup, files) ==
  IF files = <<>> THEN lookup
  ELSE LET f == Head(files)
           a == add_artists(lookup, f.tier_a, "A", f.country)
           b == add_artists(a, f.tier_b, "B", f.country)
           c == add_artists(b, f.tier_c, "C", f.country)
       IN  load_country_files(c, Tail(files))

RECURSIVE add_extra(_, _, _, _)
\* build_artist_lookup, lines 95-102: a name of artists_more_countries.json is
\* added only when its normalized name is not yet a key
add_extra(lookup, items, tier, country) ==
  IF items = <<>> THEN lookup
  ELSE LET norm == maf_normalize_name(Head(items))
           next == IF norm # <<>> /\ norm \notin DOMAIN lookup
                   THEN Put(lookup, norm, [tier |-> tier, original |-> Head(items), country |-> country])
                   ELSE lookup
       IN  add_extra(next, Tail(items), tier, country)

RECURSIVE load_extra(_, _)
load_extra(lookup, countries) ==
  IF countries = <<>> THEN lookup
  ELSE LET c == Head(countries)
       IN  load_extra(add_extra(add_extra(lookup, c.tier_a, "A", c.country), c.tier_b, "B", c.country),
                      Tail(countries))

\* build_artist_lookup, lines 105-107: no main name is itself a variation of
\* another, so the order of the dictionary does not matter
add_variations(lookup) ==
  LET new == {k \in DOMAIN variations :
                variations[k].main \in DOMAIN lookup /\ variations[k].var \notin DOMAIN lookup}
  IN  [n \in {variations[k].var : k \in new} |->
         lookup[variations[CHOOSE k \in new : variations[k].var = n].main]] @@ lookup

\* build_artist_lookup
build_artist_lookup(dir) == add_variations(load_extra(load_country_files(<<>>, dir.files), dir.extra))

\* str.split()[0]: the first run of characters that are not whitespace
first_word(s) ==
  LET t == LStrip(s)
      ws == {k \in 1..Len(t) : t[k] \in Whitespace}
  IN  IF ws = {} THEN t ELSE SubSeq(t, 1, SetMin(ws) - 1)

\* match_tracks, line 154: ' ' in artist, and artist.split() is empty
match_raises(track) == IsIn(SP, track.artist) /\ LStrip(track.artist) = <<>>

\* match_tracks, lines 142-155: the entry found for a track's artist, Null for none
lookup_artist(lookup, artist) ==
  LET norm == maf_normalize_name(artist)
      nospace == remove_spaces(norm)
      first_part == maf_normalize_name(first_word(artist))
  IN  IF norm \in DOMAIN lookup THEN Obj(lookup[norm])
      ELSE IF nospace \in DOMAIN lookup THEN Obj(lookup[nospace])
      ELSE IF IsIn(SP, artist) /\ first_part \in DOMAIN lookup THEN Obj(lookup[first_part])
      ELSE Null

\* match_tracks, lines 171-176
matched_canon_level(tier) ==
  IF tier = "A" THEN "ESSENTIAL"
  ELSE IF tier = "B" THEN "DEEP_CUT"
  ELSE "ECHO"

\* match_tracks, lines 141-176: one track of the file, rewritten in place;
\* every key the loop does not assign stays as the file had it
match_track(lookup, track) ==
  LET info == lookup_artist(lookup, track.artist)
      tier == IF info.t = "obj" THEN info.v.tier ELSE "D"
  IN  [matched_artist |-> IF info.t = "obj" THEN Str(info.v.original) ELSE Null,
       tier_source |-> IF info.t = "obj" THEN "exact_match" ELSE "default"]
      @@ [track EXCEPT !.tier = tier, !.canon_level = matched_canon_level(tier)]

\* ------------------------------------------------------------ the inputs

\* 'Burna Boy'
TxtBurnaBoy == <<"B","u","r","n","a"," ","B","o","y">>

\* 'Official Video'
TxtOfficialVideo == <<"O","f","f","i","c","i","a","l"," ","V","i","d","e","o">>

\* 'Unknown Singer'
TxtUnknownSinger == <<"U","n","k","n","o","w","n"," ","S","i","n","g","e","r">>

\* 'My Song (Live at Sofar Sounds)'
TxtLiveAtSofar == <<"M","y"," ","S","o","n","g"," ","(","L","i","v","e"," ","a","t"," ","S","o","f","a","r"," ","S","o","u","n","d","s",")">>

\* 'Fela Kuti'
TxtFelaKuti == <<"F","e","l","a"," ","K","u","t","i">>

\* 'Zombie'
TxtZombie == <<"Z","o","m","b","i","e">>

\* 'Official Remix ft. X'
TxtOfficialRemix == <<"O","f","f","i","c","i","a","l"," ","R","e","m","i","x"," ","f","t","."," ","X">>

\* 'Zlatan'
TxtZlatan == <<"Z","l","a","t","a","n">>

\* 'Ye'
TxtYe == <<"Y","e">>

\* 'Dav'
TxtDav == <<"D","a","v">>

\* 'Burna Boy - Topic'
TxtBurnaBoyTopic == <<"B","u","r","n","a"," ","B","o","y"," ","-"," ","T","o","p","i","c">>

\* A row of the video_intelligence table as the store returns it
\* 'Hugh Masekela'
TxtHughMasekela == <<"H","u","g","h"," ","M","a","s","e","k","e","l","a">>

\* 'King'
TxtKing == <<"K","i","n","g">>

\* 'DJ Neptune'
TxtDJNeptune == <<"D","J"," ","N","e","p","t","u","n","e">>

\* 'Live Remix'
TxtLiveRemix == <<"L","i","v","e"," ","R","e","m","i","x">>

\* 'Afro Mix'
TxtAfroMix == <<"A","f","r","o"," ","M","i","x">>

\* 'Club Mix'
TxtClubMix == <<"C","l","u","b"," ","M","i","x">>

\* 'Mix 2024'
TxtMix2024 == <<"M","i","x"," ","2","0","2","4">>

\* 'Acoustic Cover'
TxtAcousticCover == <<"A","c","o","u","s","t","i","c"," ","C","o","v","e","r">>

\* 'Instrumental'
TxtInstrumental == <<"I","n","s","t","r","u","m","e","n","t","a","l">>

\* 'Slowed'
TxtSlowed == <<"S","l","o","w","e","d">>

\* 'Acoustic'
TxtAcoustic == <<"A","c","o","u","s","t","i","c">>

\* 'Roots Culture Return to Africa (Japa)'
TxtRootsCulture == <<"R","o","o","t","s"," ","C","u","l","t","u","r","e"," ","R","e","t","u","r","n"," ","t","o"," ","A","f","r","i","c","a"," ","(","J","a","p","a",")">>

\* 'Unity'
TxtUnity == <<"U","n","i","t","y">>

MkTrack(id, title, artist, channel_title, view_count) ==
  [youtube_id |-> Str(id), title |-> title, artist |-> artist,
   channel_title |-> channel_title, view_count |-> view_count]

\* The four scenarios of the specification's section 8, a row with a null
\* title, and an A-tier row with few views
ScenarioTracks ==
  { MkTrack(<<"s","1">>, Str(TxtOfficialVideo), Str(TxtBurnaBoy), Absent, Num(150000000)),
    MkTrack(<<"s","2">>, Str(TxtLiveAtSofar), Str(TxtUnknownSinger), Absent, Num(500)),
    MkTrack(<<"s","3">>, Str(TxtZombie), Str(TxtFelaKuti), Str(TxtFelaKuti), Num(2000000)),
    MkTrack(<<"s","4">>, Str(TxtOfficialRemix), Str(<<>>), Absent, Num(0)),
    MkTrack(<<"s","5">>, Null, Str(TxtZlatan), Absent, Absent),
    MkTrack(<<"s","6">>, Str(TxtYe), Str(TxtBurnaBoyTopic), Absent, Null) }

\* The rows batches of more than one row are made of: an unknown artist, an
\* A-tier artist with 2,000,000 views and an A-tier artist with none
BatchRows ==
  {r \in ScenarioTracks : r.youtube_id.v \in {<<"s","2">>, <<"s","3">>, <<"s","6">>}}

ArtistInputs ==
  { Str(TxtBurnaBoy), Str(TxtZlatan), Str(TxtUnknownSinger), Str(TxtFelaKuti),
    Str(TxtDav), Str(<<>>), Absent, Null, Str(TxtHughMasekela), Str(TxtKing) }

\* Titles with the keywords of the content types, alone and two at a time
ContentTitles ==
  { Str(TxtLiveRemix), Str(TxtAfroMix), Str(TxtClubMix), Str(TxtMix2024),
    Str(TxtAcousticCover), Str(TxtInstrumental), Str(TxtSlowed), Str(TxtAcoustic) }

\* An artist with a DJ token and one without
ContentArtists == { Str(TxtDJNeptune), Str(TxtUnknownSinger) }

\* A title with the keywords of five cultural tags, and artists with the
\* keyword of one more tag or of none
TagRows ==
  { MkTrack(<<"t">>, Str(TxtRootsCulture), a, Absent, Num(0)) :
      a \in {Str(TxtUnity), Str(TxtUnknownSinger)} }

TitleInputs == { Str(TxtOfficialRemix), Str(TxtZombie), Absent, Null }

ViewInputs ==
  { Absent, Null, Num(0), Num(100000), Num(100001), Num(500000), Num(500001),
    Num(1000000), Num(1000001), Num(5000000), Num(5000001), Num(10000000),
    Num(10000001), Num(50000000), Num(50000001), Num(100000000), Num(100000001) }

\* The artists the view counts are varied for: tier A, tier B, tier D
TieredArtists == { Str(TxtBurnaBoy), Str(TxtZlatan), Str(TxtUnknownSinger) }

\* The view counts of the rows the percentile pass is tried on
SmallViews == { 0, 1, 2 }

\* Most rows of a batch made of BatchRows
MaxTracks == 2

\* Most rows of a batch that varies the view counts only
MaxViewRows == 3

SeqsUpTo(S, n) == UNION { [1..k -> S] : k \in 1..n }

ViewTrack(v) == MkTrack(<<"v">>, Str(TxtYe), Str(TxtUnknownSinger), Absent, Num(v))

\* Tables that vary the view counts only: every batch of up to MaxViewRows
\* rows, and the ten rows with the views 0..9
ViewTables ==
  { [k \in DOMAIN vs |-> ViewTrack(vs[k])] : vs \in SeqsUpTo(SmallViews, MaxViewRows) }
  \cup { [k \in 1..10 |-> ViewTrack(k - 1)] }

\* A table of one row more than classify_with_llm puts in its prompt
LongTable == [k \in 1..11 |-> ViewTrack(k - 1)]

\* The tables of the store the programs are run on
Tables ==
  { <<r>> : r \in ScenarioTracks }
  \cup SeqsUpTo(BatchRows, MaxTracks)
  \cup { <<MkTrack(<<"r">>, t, a, Absent, Num(0))>> : t \in TitleInputs, a \in ArtistInputs }
  \cup { <<MkTrack(<<"r">>, Str(TxtZombie), a, Absent, v)>> : a \in TieredArtists, v \in ViewInputs }
  \cup { <<MkTrack(<<"c">>, t, a, Absent, Num(0))>> : t \in ContentTitles, a \in ContentArtists }
  \cup { <<r>> : r \in TagRows }
  \cup ViewTables
  \cup { LongTable }

\* What classify_with_llm's request can come back with
LlmReplies ==
  { [kind |-> "request_failed", items |-> <<>>],
    [kind |-> "no_json_array", items |-> <<>>],
    [kind |-> "array", items |-> <<>>],
    [kind |-> "array", items |-> <<Num(1)>>],
    [kind |-> "array", items |-> <<Obj([track_number |-> 1])>>],
    [kind |-> "array", items |-> <<Obj([track_number |-> 1, canon_level |-> "ECHO"])>>],
    [kind |-> "array", items |-> <<Obj([track_number |-> 1, artist_tier |-> "S", canon_level |-> "CLASSIC"])>>],
    [kind |-> "array", items |-> <<Obj([track_number |-> 1, cultural_significance |-> Num(5)])>>],
    [kind |-> "array", items |->
       <<Obj([track_number |-> 2, artist_tier |-> "C", canon_level |-> "ARCHIVE",
              cultural_significance |-> Obj([historical |-> 5, social |-> 4]),
              aesthetic_merit |-> Obj([craft |-> 5]),
              cultural_tags |-> {"anthem"}, aesthetic_tags |-> {"innovative"}]),
         Obj([track_number |-> 11, artist_tier |-> "A", canon_level |-> "CORE"]),
         Obj([artist_tier |-> "A"])>>] }

\* --sample: 0 stands for None
SampleSizes == { 0, 1 }

\* 'Wizkid'
TxtWizkid == <<"W","i","z","k","i","d">>

\* 'Wiz Kid'
TxtWizKid == <<"W","i","z"," ","K","i","d">>

\* The contents of the data directory match_tracks reads: the
\* artists_*_complete.json files in glob order and artists_more_countries.json
DataDirs ==
  { [files |-> <<>>, extra |-> <<>>],
    [files |-> <<[country |-> "NG",
                  tier_a |-> <<TxtBurnaBoy, TxtFelaKuti>>,
                  tier_b |-> <<TxtZlatan>>,
                  tier_c |-> <<TxtUnknownSinger>>]>>,
     extra |-> <<[country |-> "GH", tier_a |-> <<TxtDav>>, tier_b |-> <<TxtBurnaBoy>>]>>],
    [files |-> <<[country |-> "NG",
                  tier_a |-> <<TxtWizkid>>,
                  tier_b |-> <<>>,
                  tier_c |-> <<TxtWizKid>>]>>,
     extra |-> <<>>] }

\* ------------------------------------------ canonizer.py: the tables

\* canonizer.py TIER_A_ARTISTS (lines 30-74), in source order, duplicates dropped
V1_TIER_A_ARTISTS ==
  <<
    <<"b","u","r","n","a"," ","b","o","y">>,
    <<"w","i","z","k","i","d">>,
    <<"d","a","v","i","d","o">>,
    <<"t","i","w","a"," ","s","a","v","a","g","e">>,
    <<"f","e","l","a"," ","k","u","t","i">>,
    <<"r","e","m","a">>,
    <<"t","e","m","s">>,
    <<"c","k","a","y">>,
    <<"a","y","r","a"," ","s","t","a","r","r">>,
    <<"a","s","a","k","e">>,
    <<"f","i","r","e","b","o","y"," ","d","m","l">>,
    <<"o","l","a","m","i","d","e">>,
    <<"y","e","m","i"," ","a","l","a","d","e">>,
    <<"m","r"," ","e","a","z","i">>,
    <<"t","e","k","n","o">>,
    <<"k","i","z","z"," ","d","a","n","i","e","l">>,
    <<"j","o","e","b","o","y">>,
    <<"o","m","a","h"," ","l","a","y">>,
    <<"p","a","t","o","r","a","n","k","i","n","g">>,
    <<"w","a","n","d","e"," ","c","o","a","l">>,
    <<"d","o","n"," ","j","a","z","z","y">>,
    <<"2","b","a","b","a">>,
    <<"p","h","y","n","o">>,
    <<"f","l","a","v","o","u","r">>,
    <<"b","l","a","c","k"," ","c","o","f","f","e","e">>,
    <<"m","a","s","t","e","r"," ","k","g">>,
    <<"d","j"," ","m","a","p","h","o","r","i","s","a">>,
    <<"k","a","b","z","a"," ","d","e"," ","s","m","a","l","l">>,
    <<"m","i","r","i","a","m"," ","m","a","k","e","b","a">>,
    <<"c","a","s","s","p","e","r"," ","n","y","o","v","e","s","t">>,
    <<"n","a","s","t","y"," ","c">>,
    <<"a","k","a">>,
    <<"s","j","a","v","a">>,
    <<"s","h","o"," ","m","a","d","j","o","z","i">>,
    <<"m","a","k","h","a","d","z","i">>,
    <<"a","m","a","p","i","a","n","o">>,
    <<"f","o","c","a","l","i","s","t","i","c">>,
    <<"u","n","c","l","e"," ","w","a","f","f","l","e","s">>,
    <<"d","j"," ","z","i","n","h","l","e">>,
    <<"s","a","r","k","o","d","i","e">>,
    <<"s","t","o","n","e","b","w","o","y">>,
    <<"s","h","a","t","t","a"," ","w","a","l","e">>,
    <<"b","l","a","c","k"," ","s","h","e","r","i","f">>,
    <<"k","i","n","g"," ","p","r","o","m","i","s","e">>,
    <<"r","2","b","e","e","s">>,
    <<"k","w","e","s","i"," ","a","r","t","h","u","r">>,
    <<"k","u","a","m","i"," ","e","u","g","e","n","e">>,
    <<"k","i","d","i">>,
    <<"e","f","y","a">>,
    <<"b","e","c","c","a">>,
    <<"d","i","a","m","o","n","d"," ","p","l","a","t","n","u","m","z">>,
    <<"s","a","u","t","i"," ","s","o","l">>,
    <<"h","a","r","m","o","n","i","z","e">>,
    <<"r","a","y","v","a","n","n","y">>,
    <<"a","l","i"," ","k","i","b","a">>,
    <<"z","u","c","h","u">>,
    <<"m","b","o","s","s","o">>,
    <<"n","a","n","d","y">>,
    <<"a","l","i","k","i","b","a">>,
    <<"v","a","n","e","s","s","a"," ","m","d","e","e">>,
    <<"j","u","x">>,
    <<"n","y","a","s","h","i","n","s","k","i">>,
    <<"k","h","a","l","i","g","r","a","p","h"," ","j","o","n","e","s">>,
    <<"o","t","i","l","e"," ","b","r","o","w","n">>,
    <<"n","v","i","i","r","i">>,
    <<"b","i","e","n">>,
    <<"f","a","l","l","y"," ","i","p","u","p","a">>,
    <<"k","o","f","f","i"," ","o","l","o","m","i","d","e">>,
    <<"f","e","r","r","e"," ","g","o","l","a">>,
    <<"i","n","n","o","s","s"," ","b">>,
    <<"w","e","r","r","a","s","o","n">>,
    <<"p","a","p","a"," ","w","e","m","b","a">>,
    <<"a","w","i","l","o"," ","l","o","n","g","o","m","b","a">>,
    <<"l","o","k","u","a"," ","k","a","n","z","a">>,
    <<"y","o","u","s","s","o","u"," ","n","d","o","u","r">>,
    <<"s","a","l","i","f"," ","k","e","i","t","a">>,
    <<"a","n","g","e","l","i","q","u","e"," ","k","i","d","j","o">>,
    <<"m","a","n","u"," ","d","i","b","a","n","g","o">>,
    <<"m","a","g","i","c"," ","s","y","s","t","e","m">>,
    <<"d","j"," ","a","r","a","f","a","t">>,
    <<"s","e","r","g","e"," ","b","e","y","n","a","u","d">>,
    <<"t","o","o","f","a","n">>,
    <<"f","a","n","i","c","k","o">>,
    <<"r","o","s","n","y"," ","k","a","y","i","b","a">>,
    <<"a","m","y"," ","k","o","i","t","a">>,
    <<"o","u","m","o","u"," ","s","a","n","g","a","r","e">>,
    <<"d","r","a","k","e">>,
    <<"b","e","y","o","n","c","e">>,
    <<"r","i","h","a","n","n","a">>,
    <<"c","h","r","i","s"," ","b","r","o","w","n">>,
    <<"k","e","n","d","r","i","c","k"," ","l","a","m","a","r">>,
    <<"j","a","y","-","z">>,
    <<"k","a","n","y","e"," ","w","e","s","t">>,
    <<"t","r","a","v","i","s"," ","s","c","o","t","t">>,
    <<"t","h","e"," ","w","e","e","k","n","d">>,
    <<"s","z","a">>,
    <<"d","o","j","a"," ","c","a","t">>,
    <<"m","e","g","a","n"," ","t","h","e","e"," ","s","t","a","l","l","i","o","n">>,
    <<"c","a","r","d","i"," ","b">>,
    <<"n","i","c","k","i"," ","m","i","n","a","j">>,
    <<"f","u","t","u","r","e">>,
    <<"l","i","l"," ","b","a","b","y">>,
    <<"g","u","n","n","a">>,
    <<"y","o","u","n","g"," ","t","h","u","g">>,
    <<"j"," ","c","o","l","e">>,
    <<"2","1"," ","s","a","v","a","g","e">>,
    <<"t","y","l","e","r"," ","t","h","e"," ","c","r","e","a","t","o","r">>,
    <<"f","r","a","n","k"," ","o","c","e","a","n">>,
    <<"c","h","i","l","d","i","s","h"," ","g","a","m","b","i","n","o">>,
    <<"b","r","u","n","o"," ","m","a","r","s">>,
    <<"u","s","h","e","r">>,
    <<"m","i","c","h","a","e","l"," ","j","a","c","k","s","o","n">>,
    <<"p","r","i","n","c","e">>,
    <<"s","t","e","v","i","e"," ","w","o","n","d","e","r">>,
    <<"m","a","r","v","i","n"," ","g","a","y","e">>,
    <<"a","r","e","t","h","a"," ","f","r","a","n","k","l","i","n">>,
    <<"b","o","b"," ","m","a","r","l","e","y">>,
    <<"s","e","a","n"," ","p","a","u","l">>,
    <<"s","h","a","g","g","y">>,
    <<"v","y","b","z"," ","k","a","r","t","e","l">>,
    <<"p","o","p","c","a","a","n">>,
    <<"s","p","i","c","e">>,
    <<"a","l","k","a","l","i","n","e">>,
    <<"c","h","r","o","n","i","x","x">>,
    <<"k","o","f","f","e","e">>,
    <<"p","r","o","t","o","j","e">>,
    <<"d","a","m","i","a","n"," ","m","a","r","l","e","y">>,
    <<"b","u","j","u"," ","b","a","n","t","o","n">>,
    <<"b","e","e","n","i","e"," ","m","a","n">>,
    <<"b","o","u","n","t","y"," ","k","i","l","l","e","r">>,
    <<"s","i","z","z","l","a">>,
    <<"s","t","o","r","m","z","y">>,
    <<"d","a","v","e">>,
    <<"s","k","e","p","t","a">>,
    <<"w","i","l","e","y">>,
    <<"j"," ","h","u","s">>,
    <<"c","e","n","t","r","a","l"," ","c","e","e">>,
    <<"j","o","r","j","a"," ","s","m","i","t","h">>,
    <<"l","i","t","t","l","e"," ","s","i","m","z">>,
    <<"e","l","l","a"," ","m","a","i">>,
    <<"r","a","y"," ","b","l","k">>,
    <<"m","s"," ","b","a","n","k","s">>,
    <<"h","e","a","d","i","e"," ","o","n","e">>,
    <<"a","n","i","t","t","a">>,
    <<"l","u","d","m","i","l","l","a">>,
    <<"i","z","a">>,
    <<"s","e","u"," ","j","o","r","g","e">>,
    <<"g","i","l","b","e","r","t","o"," ","g","i","l">>,
    <<"c","a","e","t","a","n","o"," ","v","e","l","o","s","o">>,
    <<"j","o","r","g","e"," ","b","e","n"," ","j","o","r">>,
    <<"t","i","m"," ","m","a","i","a">>,
    <<"m","c"," ","k","e","v","i","n","h","o">>,
    <<"p","a","b","l","l","o"," ","v","i","t","t","a","r">>,
    <<"f","e","m","i"," ","k","u","t","i">>,
    <<"k","i","n","g"," ","s","u","n","n","y"," ","a","d","e">>,
    <<"e","b","e","n","e","z","e","r"," ","o","b","e","y">>,
    <<"s","i","r"," ","s","h","i","n","a"," ","p","e","t","e","r","s">>,
    <<"o","l","i","v","e","r"," ","d","e"," ","c","o","q","u","e">>,
    <<"o","s","a","d","e","b","e">>,
    <<"s","u","n","n","y"," ","o","k","o","s","u","n">>,
    <<"o","n","y","e","k","a"," ","o","n","w","e","n","u">>
  >>

\* canonizer.py CULTURAL_KEYWORDS (lines 85-115), in dictionary order
V1_CULTURAL_KEYWORDS ==
  <<
    [tag |-> "anthem", keywords |-> <<<<"a","n","t","h","e","m">>, <<"n","a","t","i","o","n","a","l">>, <<"i","n","d","e","p","e","n","d","e","n","c","e">>, <<"u","n","i","t","y">>, <<"s","t","a","n","d"," ","u","p">>, <<"r","i","s","e"," ","u","p">>, <<"w","e"," ","a","r","e">>>>],
    [tag |-> "revolution", keywords |-> <<<<"r","e","v","o","l","u","t","i","o","n">>, <<"c","h","a","n","g","e">>, <<"f","i","g","h","t">>, <<"p","o","w","e","r"," ","t","o">>, <<"s","y","s","t","e","m">>, <<"s","t","r","u","g","g","l","e">>, <<"f","r","e","e","d","o","m"," ","f","i","g","h","t","e","r">>>>],
    [tag |-> "liberation", keywords |-> <<<<"f","r","e","e","d","o","m">>, <<"f","r","e","e">>, <<"l","i","b","e","r","a","t","i","o","n">>, <<"i","n","d","e","p","e","n","d","e","n","t">>, <<"c","h","a","i","n","s">>, <<"e","m","a","n","c","i","p","a","t","i","o","n">>, <<"f","r","e","e"," ","a","t"," ","l","a","s","t">>>>],
    [tag |-> "protest", keywords |-> <<<<"p","r","o","t","e","s","t">>, <<"i","n","j","u","s","t","i","c","e">>, <<"p","o","l","i","c","e">>, <<"g","o","v","e","r","n","m","e","n","t">>, <<"c","o","r","r","u","p","t","i","o","n">>, <<"s","a","r","s">>, <<"e","n","d","s","a","r","s">>>>],
    [tag |-> "tradition", keywords |-> <<<<"t","r","a","d","i","t","i","o","n","a","l">>, <<"h","e","r","i","t","a","g","e">>, <<"a","n","c","e","s","t","o","r","s">>, <<"e","l","d","e","r","s">>, <<"c","u","l","t","u","r","e">>, <<"v","i","l","l","a","g","e">>, <<"f","o","l","k","l","o","r","e">>>>],
    [tag |-> "roots", keywords |-> <<<<"r","o","o","t","s">>, <<"o","r","i","g","i","n">>, <<"h","o","m","e","l","a","n","d">>, <<"n","a","t","i","v","e">>, <<"i","n","d","i","g","e","n","o","u","s">>>>],
    [tag |-> "motherland", keywords |-> <<<<"a","f","r","i","c","a">>, <<"m","a","m","a"," ","a","f","r","i","c","a">>, <<"m","o","t","h","e","r","l","a","n","d">>, <<"c","o","n","t","i","n","e","n","t">>, <<"a","f","r","i","c","a","n"," ","q","u","e","e","n">>, <<"a","f","r","i","c","a","n"," ","k","i","n","g">>>>],
    [tag |-> "pan-african", keywords |-> <<<<"p","a","n","-","a","f","r","i","c","a","n">>, <<"u","n","i","t","e","d"," ","a","f","r","i","c","a">>, <<"o","n","e"," ","a","f","r","i","c","a">>, <<"a","f","r","i","c","a","n"," ","u","n","i","t","y">>>>],
    [tag |-> "diaspora", keywords |-> <<<<"d","i","a","s","p","o","r","a">>, <<"a","b","r","o","a","d">>, <<"o","v","e","r","s","e","a","s">>, <<"j","a","p","a">>, <<"a","b","r","o","a","d"," ","l","i","f","e">>, <<"i","m","m","i","g","r","a","n","t">>>>],
    [tag |-> "homecoming", keywords |-> <<<<"r","e","t","u","r","n">>, <<"c","o","m","i","n","g"," ","h","o","m","e">>, <<"b","a","c","k"," ","h","o","m","e">>, <<"w","e","l","c","o","m","e"," ","h","o","m","e">>, <<"h","o","m","e","c","o","m","i","n","g">>>>],
    [tag |-> "bridge", keywords |-> <<<<"f","u","s","i","o","n">>, <<"b","l","e","n","d">>, <<"m","i","x">>, <<"a","f","r","o","-">>>>],
    [tag |-> "street", keywords |-> <<<<"s","t","r","e","e","t">>, <<"h","o","o","d">>, <<"b","l","o","c","k">>, <<"a","r","e","a">>, <<"g","h","e","t","t","o">>, <<"t","r","e","n","c","h","e","s">>, <<"o","u","t","s","i","d","e">>>>],
    [tag |-> "hustle", keywords |-> <<<<"h","u","s","t","l","e">>, <<"g","r","i","n","d">>, <<"m","o","n","e","y">>, <<"p","a","p","e","r">>, <<"c","h","e","d","d","a","r">>, <<"b","a","g">>, <<"s","e","c","u","r","e">>>>],
    [tag |-> "survival", keywords |-> <<<<"s","u","r","v","i","v","e">>, <<"s","t","r","u","g","g","l","e">>, <<"m","a","k","e"," ","i","t">>, <<"o","v","e","r","c","o","m","e">>, <<"r","i","s","e">>, <<"f","r","o","m"," ","n","o","t","h","i","n","g">>>>],
    [tag |-> "wedding", keywords |-> <<<<"w","e","d","d","i","n","g">>, <<"m","a","r","r","i","a","g","e">>, <<"b","r","i","d","e">>, <<"g","r","o","o","m">>, <<"o","w","a","m","b","e">>, <<"o","w","a","n","b","e">>, <<"a","s","o","e","b","i">>>>],
    [tag |-> "festival", keywords |-> <<<<"f","e","s","t","i","v","a","l">>, <<"c","a","r","n","i","v","a","l">>, <<"d","e","t","t","y">>, <<"d","e","c","e","m","b","e","r">>, <<"p","a","r","t","y">>, <<"f","i","e","s","t","a">>>>],
    [tag |-> "celebration", keywords |-> <<<<"c","e","l","e","b","r","a","t","e">>, <<"j","o","y">>, <<"h","a","p","p","y">>, <<"b","l","e","s","s","e","d">>, <<"t","h","a","n","k","f","u","l">>, <<"g","r","a","t","e","f","u","l">>>>],
    [tag |-> "spiritual", keywords |-> <<<<"s","p","i","r","i","t">>, <<"s","o","u","l">>, <<"d","i","v","i","n","e">>, <<"h","o","l","y">>, <<"s","a","c","r","e","d">>, <<"a","n","o","i","n","t","e","d">>>>],
    [tag |-> "prayer", keywords |-> <<<<"p","r","a","y","e","r">>, <<"p","r","a","y">>, <<"l","o","r","d">>, <<"g","o","d">>, <<"j","e","s","u","s">>, <<"a","l","l","a","h">>, <<"w","o","r","s","h","i","p">>, <<"p","r","a","i","s","e">>>>],
    [tag |-> "healing", keywords |-> <<<<"h","e","a","l">>, <<"r","e","s","t","o","r","a","t","i","o","n">>, <<"p","e","a","c","e">>, <<"c","a","l","m">>, <<"c","o","m","f","o","r","t">>, <<"s","t","r","e","n","g","t","h">>>>],
    [tag |-> "love", keywords |-> <<<<"l","o","v","e">>, <<"b","a","b","y">>, <<"d","a","r","l","i","n","g">>, <<"h","e","a","r","t">>, <<"f","o","r","e","v","e","r">>, <<"t","o","g","e","t","h","e","r">>, <<"m","y"," ","l","o","v","e">>>>],
    [tag |-> "heartbreak", keywords |-> <<<<"h","e","a","r","t","b","r","e","a","k">>, <<"p","a","i","n">>, <<"t","e","a","r","s">>, <<"c","r","y">>, <<"h","u","r","t">>, <<"b","r","o","k","e","n">>, <<"m","i","s","s"," ","y","o","u">>>>]
  >>

\* canonizer.py GENRE_KEYWORDS (lines 121-141), in dictionary order
V1_GENRE_KEYWORDS ==
  <<
    [genre |-> "afrobeats", keywords |-> <<<<"a","f","r","o","b","e","a","t">>, <<"n","a","i","j","a">>, <<"n","i","g","e","r","i","a","n">>, <<"l","a","g","o","s">>, <<"w","i","z","k","i","d">>, <<"d","a","v","i","d","o">>, <<"b","u","r","n","a">>>>],
    [genre |-> "amapiano", keywords |-> <<<<"a","m","a","p","i","a","n","o">>, <<"p","i","a","n","o">>, <<"y","a","n","o","s">>, <<"m","a","p","h","o","r","i","s","a">>, <<"k","a","b","z","a">>, <<"l","o","g"," ","d","r","u","m">>>>],
    [genre |-> "afro-house", keywords |-> <<<<"a","f","r","o"," ","h","o","u","s","e">>, <<"a","f","r","o","-","h","o","u","s","e">>, <<"b","l","a","c","k"," ","c","o","f","f","e","e">>, <<"d","e","e","p"," ","h","o","u","s","e"," ","a","f","r","i","c","a">>>>],
    [genre |-> "gqom", keywords |-> <<<<"g","q","o","m">>, <<"d","u","r","b","a","n">>, <<"b","a","b","e","s"," ","w","o","d","u","m","o">>>>],
    [genre |-> "highlife", keywords |-> <<<<"h","i","g","h","l","i","f","e">>, <<"h","i","g","h"," ","l","i","f","e">>, <<"g","h","a","n","a">>, <<"g","h","a","n","a","i","a","n">>>>],
    [genre |-> "hiplife", keywords |-> <<<<"h","i","p","l","i","f","e">>, <<"h","i","p"," ","l","i","f","e">>, <<"s","a","r","k","o","d","i","e">>>>],
    [genre |-> "bongo-flava", keywords |-> <<<<"b","o","n","g","o"," ","f","l","a","v","a">>, <<"b","o","n","g","o">>, <<"t","a","n","z","a","n","i","a">>, <<"d","i","a","m","o","n","d"," ","p","l","a","t","n","u","m","z">>>>],
    [genre |-> "gengetone", keywords |-> <<<<"g","e","n","g","e","t","o","n","e">>, <<"k","e","n","y","a">>, <<"n","a","i","r","o","b","i">>, <<"e","t","h","i","c">>>>],
    [genre |-> "dancehall", keywords |-> <<<<"d","a","n","c","e","h","a","l","l">>, <<"d","a","n","c","e"," ","h","a","l","l">>, <<"j","a","m","a","i","c","a">>, <<"v","y","b","z"," ","k","a","r","t","e","l">>, <<"p","o","p","c","a","a","n">>>>],
    [genre |-> "reggae", keywords |-> <<<<"r","e","g","g","a","e">>, <<"r","a","s","t","a">>, <<"b","o","b"," ","m","a","r","l","e","y">>, <<"r","o","o","t","s">>>>],
    [genre |-> "soca", keywords |-> <<<<"s","o","c","a">>, <<"t","r","i","n","i","d","a","d">>, <<"c","a","r","n","i","v","a","l">>>>],
    [genre |-> "zouk", keywords |-> <<<<"z","o","u","k">>, <<"k","i","z","o","m","b","a">>, <<"k","o","m","p","a">>>>],
    [genre |-> "rumba", keywords |-> <<<<"r","u","m","b","a">>, <<"c","o","n","g","o","l","e","s","e">>, <<"s","o","u","k","o","u","s">>, <<"n","d","o","m","b","o","l","o">>>>],
    [genre |-> "hip-hop", keywords |-> <<<<"h","i","p"," ","h","o","p">>, <<"h","i","p","h","o","p">>, <<"r","a","p">>, <<"r","a","p","p","e","r">>, <<"b","a","r","s">>, <<"f","l","o","w">>>>],
    [genre |-> "rnb", keywords |-> <<<<"r","&","b">>, <<"r","n","b">>, <<"r"," ","n"," ","b">>, <<"s","l","o","w"," ","j","a","m">>, <<"s","o","u","l">>>>],
    [genre |-> "gospel", keywords |-> <<<<"g","o","s","p","e","l">>, <<"w","o","r","s","h","i","p">>, <<"p","r","a","i","s","e">>, <<"c","h","r","i","s","t","i","a","n">>, <<"c","h","u","r","c","h">>, <<"h","a","l","l","e","l","u","j","a","h">>>>],
    [genre |-> "funk", keywords |-> <<<<"f","u","n","k">>, <<"f","u","n","k","y">>, <<"c","a","r","i","o","c","a">>, <<"b","a","i","l","e">>>>],
    [genre |-> "drill", keywords |-> <<<<"d","r","i","l","l">>, <<"u","k"," ","d","r","i","l","l">>, <<"b","r","o","o","k","l","y","n"," ","d","r","i","l","l">>>>],
    [genre |-> "grime", keywords |-> <<<<"g","r","i","m","e">>, <<"m","c">>, <<"u","k"," ","r","a","p">>>>]
  >>

\* ------------------------------------------ canonizer.py: the classifier

\* normalize_name, lines 147-149
v1_normalize_name(name) == Strip(Lower(name))

\* list(TIER_A_ARTISTS)[:50]: the first 50 names in the set's iteration order,
\* which changes with the interpreter's string hashing from run to run
V1Heads ==
  {SubSeq(V1_TIER_A_ARTISTS, 1, 50),
   SubSeq(V1_TIER_A_ARTISTS, Len(V1_TIER_A_ARTISTS) - 49, Len(V1_TIER_A_ARTISTS))}

\* get_artist_tier with a first loop that asks for the very name
get_artist_tier_exact_a(artist, head) ==
  LET normalized == v1_normalize_name(artist)
  IN  IF \E k \in DOMAIN V1_TIER_A_ARTISTS : V1_TIER_A_ARTISTS[k] = normalized
      THEN "A"
      ELSE IF AnyIn(head, normalized) THEN "B"
      ELSE "D"

\* get_artist_tier, lines 151-165; head is list(TIER_A_ARTISTS)[:50]
get_artist_tier(artist, head) ==
  LET normalized == v1_normalize_name(artist)
  IN  IF \E k \in DOMAIN V1_TIER_A_ARTISTS :
           IsIn(V1_TIER_A_ARTISTS[k], normalized) \/ IsIn(normalized, V1_TIER_A_ARTISTS[k])
      THEN "A"
      ELSE IF AnyIn(head, normalized) THEN "B"
      ELSE "D"

\* get_canon_level, lines 167-192: the title decides nothing
get_canon_level(title, artist, tier) ==
  IF tier = "A" THEN "ESSENTIAL"
  ELSE IF tier = "B" THEN "DEEP_CUT"
  ELSE IF tier = "C" THEN "ARCHIVE"
  ELSE "ECHO"

\* f"{title} {artist}".lower()
v1_text(title, artist) == Lower(title \o SP \o artist)

\* detect_cultural_tags, lines 194-205: the tags in dictionary order, five at most
v1_detect_cultural_tags(title, artist) ==
  LET text == v1_text(title, artist)
      tags == SelectSeq(V1_CULTURAL_KEYWORDS, LAMBDA e : AnyIn(e.keywords, text))
  IN  [k \in 1..Min(5, Len(tags)) |-> tags[k].tag]

\* detect_genre, lines 207-216: the first genre in dictionary order, or None
detect_genre(title, artist) ==
  LET text == v1_text(title, artist)
      found == SelectSeq(V1_GENRE_KEYWORDS, LAMBDA e : AnyIn(e.keywords, text))
  IN  IF found = <<>> THEN Null ELSE Str(found[1].genre)

\* track.get(key, '') or '': '' for an absent key, a null and an empty string
v1_text_of(track, key) == IF track[key].t = "str" THEN track[key].v ELSE <<>>

\* classify_track, lines 218-238
v1_classify_track(track, head) ==
  LET title == v1_text_of(track, "title")
      artist == v1_text_of(track, "artist")
      tier == get_artist_tier(artist, head)
      canon == get_canon_level(title, artist, tier)
  IN  [youtube_id |-> track.youtube_id,
       title |-> title,
       artist |-> artist,
       artist_tier |-> tier,
       canon_level |-> canon,
       cultural_tags |-> v1_detect_cultural_tags(title, artist),
       genre |-> detect_genre(title, artist),
       is_echo |-> (canon = "ECHO")]

\* ------------------------------------------------------- the programs

\* canonizer_v4.py lines 54-55
BATCH_SIZE == 100

LLM_BATCH_SIZE == 10

\* canonizer.py line 249: the page size of fetch_all_tracks
v1_limit == 1000

VARIABLES
  table,        \* the rows of the store's video_intelligence table
  cli_llm,      \* --llm was given
  api_key,      \* ANTHROPIC_API_KEY is set
  pc,           \* where the run is
  use_llm,      \* run_pipeline's use_llm
  total,        \* run_pipeline's total
  offset,       \* run_pipeline's offset
  tracks,       \* the batch fetched last
  llm_results,  \* batch index -> the LLM object kept for it
  i,            \* how many tracks of the batch (of the file, in match_tracks) are done
  all_results,  \* run_pipeline's all_results
  output,       \* what was written to the output file
  raised,       \* the exception that ended the run, "" for none
  lookup,       \* match_tracks' lookup table
  matched,      \* match_tracks' tracks, rewritten in place
  pipeline,     \* the download pipeline that runs, "none" for a canonizer run
  workers,      \* --workers, the pool's max_workers
  task,         \* the futures of the pool: where each process_track call is
  stats,        \* the module's stats dict
  lock,         \* the future whose call holds the module's lock, 0 for none
  main_pc,      \* where the pipeline's main is
  printed,      \* the futures whose result main has printed
  clients,      \* the object-storage clients: each thread's thread_local slot, who made each client, who used it
  storage,      \* the bucket: the quality tiers each track has an object of, under the pipeline's keys
  existing,     \* the tracks main has found in the bucket and filtered out of this run
  script,       \* the enrichment script that runs, "none" for another program
  step,         \* where the script is
  rows,         \* how many rows the store's table has; row k is the track k
  per_batch,    \* batch_size: --batch-size of gemini_batch_classifier.py, the page size of fetch_all_tracks
  save_to_db,   \* not --no-save
  all_tracks,   \* canonizer.py's all_tracks, run_enrichment_pipeline's and fetch_all_tracks' tracks
  at,           \* run_enrichment_pipeline's i, fetch_all_tracks' offset
  requests,     \* how many page requests of fetch_all_tracks were answered
  failed,       \* a page request of fetch_all_tracks has failed
  all_enriched, \* run_enrichment_pipeline's all_enriched
  patched,      \* the tracks update_track_enrichment has sent a PATCH for, in order
  master,       \* build_artist_master's master
  saved         \* the counts save_artist_master has written

\* The state of the canonizers and of match_tracks
canonvars == <<table, cli_llm, api_key, pc, use_llm, total, offset, tracks, llm_results, i, all_results, output, raised, lookup, matched>>

\* The state of a download pipeline
poolvars == <<pipeline, workers, task, stats, lock, main_pc, printed, clients, storage, existing>>

\* The state of an enrichment script
enrichvars == <<script, step, rows, per_batch, save_to_db, all_tracks, at, requests, failed, all_enriched, patched, master, saved>>

vars == <<canonvars, poolvars, enrichvars>>

\* No download pipeline runs
PoolIdle ==
  /\ pipeline = "none"
  /\ workers = 0
  /\ task = <<>>
  /\ stats = [success |-> 0, failed |-> 0, skipped |-> 0]
  /\ lock = 0
  /\ main_pc = "none"
  /\ printed = {}
  /\ clients = [local |-> <<>>, made |-> <<>>, used |-> {}]
  /\ storage = <<>>
  /\ existing = {}

\* No enrichment script runs
EnrichIdle ==
  /\ script = "none"
  /\ step = "none"
  /\ rows = 0
  /\ per_batch = 0
  /\ save_to_db = FALSE
  /\ all_tracks = <<>>
  /\ at = 0
  /\ requests = 0
  /\ failed = FALSE
  /\ all_enriched = <<>>
  /\ patched = <<>>
  /\ master = <<>>
  /\ saved = <<>>

NoOutput == [version |-> "none", total_tracks |-> 0, llm_enabled |-> FALSE, statistics |-> <<>>, tracks |-> <<>>]

\* The state when a program starts: canonizer_v4.py or canonizer.py, on a table
\* of the store; the tables that vary the views only are run without --llm
Init ==
  /\ table \in Tables
  /\ pc \in {"start", "v1_start"}
  /\ cli_llm \in (IF pc = "start" /\ table \notin ViewTables THEN BOOLEAN ELSE {FALSE})
  /\ api_key \in (IF cli_llm THEN BOOLEAN ELSE {FALSE})
  /\ use_llm = cli_llm
  /\ total = 0
  /\ offset = 0
  /\ tracks = <<>>
  /\ llm_results = <<>>
  /\ i = 0
  /\ all_results = <<>>
  /\ output = NoOutput
  /\ raised = ""
  /\ lookup = <<>>
  /\ matched = <<>>
  /\ PoolIdle
  /\ EnrichIdle

\* An uncaught exception ends the process
Raise(what) ==
  /\ pc' = "raised"
  /\ raised' = what

\* run_pipeline, lines 792-805: --llm without a key falls back to patterns
CheckKeys ==
  /\ pc = "start"
  /\ use_llm' = (cli_llm /\ api_key)
  /\ pc' = "count"
  /\ UNCHANGED <<table, cli_llm, api_key, total, offset, tracks, llm_results, i, all_results, output, raised, lookup, matched>>
  /\ UNCHANGED <<poolvars, enrichvars>>

\* run_pipeline, lines 809-821: get_total_track_count answers the table's size,
\* or 0 when its request fails; --sample caps it
GetTotal ==
  /\ pc = "count"
  /\ \E count_ok \in BOOLEAN, sample_size \in SampleSizes :
       LET counted == IF count_ok THEN Len(table) ELSE 0
       IN  total' = IF sample_size # 0 THEN Min(sample_size, counted) ELSE counted
  /\ all_results' = <<>>
  /\ offset' = 0
  /\ pc' = "loop"
  /\ UNCHANGED <<table, cli_llm, api_key, use_llm, tracks, llm_results, i, output, raised, lookup, matched>>
  /\ UNCHANGED <<poolvars, enrichvars>>

\* fetch_tracks_from_supabase(offset, limit): rows [offset, offset + limit) of
\* the table, or [] when the request fails
fetch_tracks_from_supabase(ok, off, limit) ==
  IF ok THEN SubSeq(table, off + 1, Min(off + limit, Len(table))) ELSE <<>>

\* run_pipeline, lines 823-833: the loop test and the fetch of a batch
FetchBatch ==
  /\ pc = "loop"
  /\ offset < total
  /\ \E ok \in BOOLEAN :
       LET batch_size == Min(BATCH_SIZE, total - offset)
           fetched == fetch_tracks_from_supabase(ok, offset, batch_size)
       IN  /\ tracks' = fetched
           /\ pc' = IF fetched = <<>> THEN "percentiles"
                    ELSE IF use_llm THEN "llm" ELSE "classify"
  /\ llm_results' = <<>>
  /\ i' = 0
  /\ UNCHANGED <<table, cli_llm, api_key, use_llm, total, offset, all_results, output, raised, lookup, matched>>
  /\ UNCHANGED <<poolvars, enrichvars>>

\* run_pipeline, line 823: the loop ends
LoopExit ==
  /\ pc = "loop"
  /\ offset >= total
  /\ pc' = "percentiles"
  /\ UNCHANGED <<table, cli_llm, api_key, use_llm, total, offset, tracks, llm_results, i, all_results, output, raised, lookup, matched>>
  /\ UNCHANGED <<poolvars, enrichvars>>

\* classify_with_llm, lines 489-500: the decoded array, [] for a failed
\* request, a text without an array or one json.loads rejects
classify_with_llm(reply) == IF reply.kind = "array" THEN reply.items ELSE <<>>

\* run_pipeline, lines 837-840: the objects kept per batch index; a later
\* object for the same index replaces an earlier one
index_llm_results(llm_batch, n) ==
  LET idx(k) == GetKey(llm_batch[k].v, "track_number", 0) - 1
      kept == {k \in DOMAIN llm_batch : 0 <= idx(k) /\ idx(k) < n}
  IN  [j \in {idx(k) : k \in kept} |-> llm_batch[SetMax({k \in kept : idx(k) = j})].v]

\* run_pipeline, lines 834-840, for one reply of the API: lr.get on an element
\* that is no dict raises
LlmClassifyWith(reply) ==
  /\ pc = "llm"
  /\ LET llm_batch == classify_with_llm(reply)
     IN  IF \E k \in DOMAIN llm_batch : llm_batch[k].t # "obj"
         THEN Raise("AttributeError: lr.get") /\ UNCHANGED llm_results
         ELSE /\ llm_results' = index_llm_results(llm_batch, Len(tracks))
              /\ pc' = "classify"
              /\ UNCHANGED raised
  /\ UNCHANGED <<table, cli_llm, api_key, use_llm, total, offset, tracks, i, all_results, output, lookup, matched>>
  /\ UNCHANGED <<poolvars, enrichvars>>

\* run_pipeline, lines 834-840
LlmClassify == \E reply \in LlmReplies : LlmClassifyWith(reply)

\* llm_results.get(i)
llm_result_for(k) == IF k \in DOMAIN llm_results THEN Obj(llm_results[k]) ELSE Null

\* run_pipeline, lines 843-846: one turn of the loop over the batch
ClassifyNext ==
  /\ pc = "classify"
  /\ i < Len(tracks)
  /\ LET track == tracks[i + 1]
         llm_result == llm_result_for(i)
     IN  IF patterns_raise(track)
         THEN Raise("AttributeError: lower") /\ UNCHANGED <<i, all_results>>
         ELSE IF merge_raises(llm_result)
         THEN Raise("AttributeError: get") /\ UNCHANGED <<i, all_results>>
         ELSE /\ all_results' = Append(all_results, classify_track(track, llm_result))
              /\ i' = i + 1
              /\ UNCHANGED <<pc, raised>>
  /\ UNCHANGED <<table, cli_llm, api_key, use_llm, total, offset, tracks, llm_results, output, lookup, matched>>
  /\ UNCHANGED <<poolvars, enrichvars>>

\* run_pipeline, lines 848-851: the batch is done
EndBatch ==
  /\ pc = "classify"
  /\ i = Len(tracks)
  /\ offset' = offset + Min(BATCH_SIZE, total - offset)
  /\ pc' = "loop"
  /\ UNCHANGED <<table, cli_llm, api_key, use_llm, total, tracks, llm_results, i, all_results, output, raised, lookup, matched>>
  /\ UNCHANGED <<poolvars, enrichvars>>

\* run_pipeline, lines 856-858
ViewPercentiles ==
  /\ pc = "percentiles"
  /\ all_results' = calculate_view_percentiles(all_results)
  /\ pc' = "save"
  /\ UNCHANGED <<table, cli_llm, api_key, use_llm, total, offset, tracks, llm_results, i, output, raised, lookup, matched>>
  /\ UNCHANGED <<poolvars, enrichvars>>

\* defaultdict(int) counts of one field of the results
Histogram(results, field) ==
  [x \in {results[k][field] : k \in DOMAIN results} |->
     Cardinality({k \in DOMAIN results : results[k][field] = x})]

\* results[value] += 1 over the records, in run_canonizer and in match_tracks:
\* how many records have the value in the field
count_of(results, field, value) ==
  Cardinality({k \in DOMAIN results : results[k][field] = value})

\* run_pipeline, lines 866-919: the statistics and the output file
Save ==
  /\ pc = "save"
  /\ output' = [version |-> "v4",
                total_tracks |-> Len(all_results),
                llm_enabled |-> use_llm,
                statistics |-> [by_tier |-> Histogram(all_results, "tier"),
                                by_canon |-> Histogram(all_results, "canon_level"),
                                by_content_type |-> Histogram(all_results, "content_type"),
                                by_era |-> Histogram(all_results, "era")],
                tracks |-> all_results]
  /\ pc' = "done"
  /\ UNCHANGED <<table, cli_llm, api_key, use_llm, total, offset, tracks, llm_results, i, all_results, raised, lookup, matched>>
  /\ UNCHANGED <<poolvars, enrichvars>>

\* match_tracks, lines 117-134: the lookup is built and the file is read
MatchLoad ==
  /\ pc = "done"
  /\ \E dir \in DataDirs : lookup' = build_artist_lookup(dir)
  /\ matched' = output.tracks
  /\ i' = 0
  /\ pc' = "match"
  /\ UNCHANGED <<table, cli_llm, api_key, use_llm, total, offset, tracks, llm_results, all_results, output, raised>>
  /\ UNCHANGED <<poolvars, enrichvars>>

\* match_tracks, lines 141-176: one turn of the loop over the tracks
MatchNext ==
  /\ pc = "match"
  /\ i < Len(matched)
  /\ IF match_raises(matched[i + 1])
     THEN Raise("IndexError: split") /\ UNCHANGED <<i, matched>>
     ELSE /\ matched' = [matched EXCEPT ![i + 1] = match_track(lookup, @)]
          /\ i' = i + 1
          /\ UNCHANGED <<pc, raised>>
  /\ UNCHANGED <<table, cli_llm, api_key, use_llm, total, offset, tracks, llm_results, all_results, output, lookup>>
  /\ UNCHANGED <<poolvars, enrichvars>>

\* match_tracks, lines 178-196: the output file; the match rate divides by
\* the number of tracks
MatchSave ==
  /\ pc = "match"
  /\ i = Len(matched)
  /\ IF Len(matched) = 0
     THEN Raise("ZeroDivisionError") /\ UNCHANGED output
     ELSE /\ output' = [version |-> "v5-artist-matched",
                        total_tracks |-> Len(matched),
                        llm_enabled |-> output.llm_enabled,
                        statistics |-> [by_tier |-> [t \in TIERS |-> count_of(matched, "tier", t)],
                                        matched |-> count_of(matched, "tier_source", "exact_match"),
                                        unmatched |-> count_of(matched, "tier_source", "default")],
                        tracks |-> matched]
          /\ pc' = "matched"
          /\ UNCHANGED raised
  /\ UNCHANGED <<table, cli_llm, api_key, use_llm, total, offset, tracks, llm_results, i, all_results, lookup, matched>>
  /\ UNCHANGED <<poolvars, enrichvars>>

\* canonizer.py fetch_all_tracks, lines 244-269: one turn of its loop; an
\* empty page and a failed request both end it with what was fetched so far
V1FetchPage ==
  /\ pc \in {"v1_start", "v1_fetch"}
  /\ \E ok \in BOOLEAN :
       LET batch == fetch_tracks_from_supabase(ok, offset, v1_limit)
       IN  IF batch = <<>>
           THEN /\ pc' = "v1_classify"
                /\ UNCHANGED <<tracks, offset>>
           ELSE /\ tracks' = tracks \o batch
                /\ offset' = offset + v1_limit
                /\ pc' = "v1_fetch"
  /\ UNCHANGED <<table, cli_llm, api_key, use_llm, total, llm_results, i, all_results, output, raised, lookup, matched>>
  /\ UNCHANGED <<poolvars, enrichvars>>

\* canonizer.py run_canonizer, lines 313-316: one turn of the loop over the tracks
V1ClassifyNext ==
  /\ pc = "v1_classify"
  /\ i < Len(tracks)
  /\ \E head \in V1Heads :
       all_results' = Append(all_results, v1_classify_track(tracks[i + 1], head))
  /\ i' = i + 1
  /\ UNCHANGED <<table, cli_llm, api_key, pc, use_llm, total, offset, tracks, llm_results, output, raised, lookup, matched>>
  /\ UNCHANGED <<poolvars, enrichvars>>

\* canonizer.py run_canonizer, lines 359-383: the output file
V1Save ==
  /\ pc = "v1_classify"
  /\ i = Len(tracks)
  /\ output' = [version |-> "v1",
                total_tracks |-> Len(all_results),
                llm_enabled |-> FALSE,
                statistics |-> [tiers |-> [t \in TIERS |-> count_of(all_results, "artist_tier", t)],
                                canon |-> [c \in CANON_LEVELS |-> count_of(all_results, "canon_level", c)]],
                tracks |-> all_results]
  /\ pc' = "v1_done"
  /\ UNCHANGED <<table, cli_llm, api_key, use_llm, total, offset, tracks, llm_results, i, all_results, raised, lookup, matched>>
  /\ UNCHANGED <<poolvars, enrichvars>>

Next ==
  \/ CheckKeys
  \/ GetTotal
  \/ FetchBatch
  \/ LoopExit
  \/ LlmClassify
  \/ ClassifyNext
  \/ EndBatch
  \/ ViewPercentiles
  \/ Save
  \/ MatchLoad
  \/ MatchNext
  \/ MatchSave
  \/ V1FetchPage
  \/ V1ClassifyNext
  \/ V1Save

Spec == Init /\ [][Next]_vars

\* ------------------------------------------------ the download pipelines

\* audio_pipeline_parallel.py, hacker_mode.py and cobalt_pipeline.py: main
\* submits one process_track call per track to a thread pool and prints the
\* results as they complete
Pipelines == {"audio_pipeline_parallel", "hacker_mode", "cobalt_pipeline"}

\* Most tracks main submits to the pool
MaxSubmitted == 2

\* The values of --workers the pipelines are run with
WorkerCounts == {1, 2}

\* QUALITY_TIERS of audio_pipeline_parallel.py (line 44), in its order; the
\* other two pipelines upload the tier 128 and then the tier 64
QUALITY_TIERS == {"64", "128"}

\* The tiers one track's uploads can add to the bucket: each tier of
\* audio_pipeline_parallel.py is converted and uploaded on its own, an
\* upload_file that raises in hacker_mode.py and cobalt_pipeline.py skips the
\* uploads after it
UploadOutcomes ==
  IF pipeline = "audio_pipeline_parallel" THEN SUBSET QUALITY_TIERS
  ELSE {{}, {"128"}, {"64", "128"}}

\* No canonizer runs
CanonIdle ==
  /\ table = <<>>
  /\ cli_llm = FALSE
  /\ api_key = FALSE
  /\ pc = "none"
  /\ use_llm = FALSE
  /\ total = 0
  /\ offset = 0
  /\ tracks = <<>>
  /\ llm_results = <<>>
  /\ i = 0
  /\ all_results = <<>>
  /\ output = NoOutput
  /\ raised = ""
  /\ lookup = <<>>
  /\ matched = <<>>

\* The threads of a run: 0 is the main thread, the others are the pool's
Threads == 0..workers

\* No thread has made a client
NoClients == [local |-> [th \in Threads |-> 0], made |-> <<>>, used |-> {}]

\* get_r2_client with the client kept in one module-level slot instead of
\* thread_local
get_r2_global(c, th, created) ==
  IF c.local[0] # 0
  THEN [c EXCEPT !.used = @ \cup {<<th, c.local[0]>>}]
  ELSE IF created
       THEN LET h == Len(c.made) + 1
            IN  [local |-> [c.local EXCEPT ![0] = h],
                 made |-> Append(c.made, th),
                 used |-> c.used \cup {<<th, h>>}]
       ELSE c

\* get_r2_client (audio_pipeline_parallel.py lines 57-66) and get_r2
\* (hacker_mode.py lines 44-51, cobalt_pipeline.py lines 60-67) called on
\* thread th: the clients after the call. The thread's thread_local slot is
\* filled by boto3.client when it is empty, unless that raises, and the
\* caller uses the client of the slot
get_r2(c, th, created) ==
  IF c.local[th] # 0
  THEN [c EXCEPT !.used = @ \cup {<<th, c.local[th]>>}]
  ELSE IF created
       THEN LET h == Len(c.made) + 1
            IN  [local |-> [c.local EXCEPT ![th] = h],
                 made |-> Append(c.made, th),
                 used |-> c.used \cup {<<th, h>>}]
       ELSE c

\* What main's first call of get_r2 leaves: main of hacker_mode.py and of
\* cobalt_pipeline.py lists the bucket on the main thread (get_existing,
\* get_existing_on_r2), main of audio_pipeline_parallel.py makes no client
MainClients ==
  IF pipeline = "audio_pipeline_parallel" THEN {NoClients}
  ELSE {get_r2(NoClients, 0, created) : created \in BOOLEAN}

\* The state when main of a pipeline is first run, on an empty bucket, and has
\* fetched the tracks
PoolInit ==
  /\ CanonIdle
  /\ EnrichIdle
  /\ pipeline \in Pipelines
  /\ workers \in WorkerCounts
  /\ task = <<>>
  /\ stats = [success |-> 0, failed |-> 0, skipped |-> 0]
  /\ lock = 0
  /\ main_pc = "submit"
  /\ printed = {}
  /\ clients \in MainClients
  /\ storage = [k \in 1..MaxSubmitted |-> {}]
  /\ existing = {}

\* A submitted call no worker has taken yet: where it is, the counter it is
\* about to add to, the value `stats[key] += 1` has loaded, how many times
\* it has stored to a counter, the worker thread that runs it, and its track
Queued == [pc |-> "queued", key |-> "none", reg |-> 0, tallied |-> 0, thread |-> 0, track |-> 0]

\* get_existing (hacker_mode.py lines 60-73) and get_existing_on_r2: the
\* tracks with an object under the prefix 128/, none when the listing raises
get_existing(listed) ==
  IF clients.local[0] # 0 /\ listed
  THEN {k \in DOMAIN storage : "128" \in storage[k]}
  ELSE {}

\* main, from the fetched tracks 1..n to the submitted calls:
\* audio_pipeline_parallel.py lines 206-211 submits every track; hacker_mode.py
\* lines 133-156 and cobalt_pipeline.py lines 238-265 leave out the tracks
\* found in the bucket and return when none is left, cobalt_pipeline.py also
\* when its test request to the Cobalt API fails
Submit ==
  /\ main_pc = "submit"
  /\ \E n \in 1..MaxSubmitted, listed, tested \in BOOLEAN :
       LET found == IF pipeline = "audio_pipeline_parallel" THEN {} ELSE get_existing(listed)
           to_process == SelectSeq([k \in 1..n |-> k], LAMBDA k : k \notin found)
       IN  /\ existing' = found \cap 1..n
           /\ IF to_process = <<>> \/ (pipeline = "cobalt_pipeline" /\ ~tested)
              THEN /\ task' = <<>>
                   /\ main_pc' = "returned"
              ELSE /\ task' = [t \in DOMAIN to_process |-> [Queued EXCEPT !.track = to_process[t]]]
                   /\ main_pc' = "as_completed"
  /\ UNCHANGED <<pipeline, workers, stats, lock, printed, clients, storage>>
  /\ UNCHANGED <<canonvars, enrichvars>>

\* The calls a worker thread is in
Running == {t \in DOMAIN task : task[t].pc \notin {"queued", "done", "raised"}}

\* The first statement of process_track
FirstStep ==
  CASE pipeline = "audio_pipeline_parallel" -> "check_exists"
    [] pipeline = "hacker_mode" -> "download"
    [] pipeline = "cobalt_pipeline" -> "get_url"

Goto(t, where) == task' = [task EXCEPT ![t].pc = where]

\* process_track reaches `with lock: stats[key] += 1`
Tally(t, key) == task' = [task EXCEPT ![t].pc = "acquire", ![t].key = key]

\* A free worker thread takes the call that was submitted first
StartTask(t) ==
  /\ task[t].pc = "queued"
  /\ \A u \in 1..(t - 1) : task[u].pc # "queued"
  /\ \E w \in 1..workers :
       /\ \A u \in Running : task[u].thread # w
       /\ task' = [task EXCEPT ![t].pc = FirstStep, ![t].thread = w]
  /\ UNCHANGED <<pipeline, workers, stats, lock, main_pc, printed, clients, storage, existing>>
  /\ UNCHANGED <<canonvars, enrichvars>>

\* audio_pipeline_parallel.py process_track, lines 130-133: check_exists_on_r2
\* answers True when the object audio/128/{youtube_id}.opus is in the bucket,
\* False when it is not and when the request or get_r2_client fails
CheckExists(t) ==
  /\ task[t].pc = "check_exists"
  /\ \E created \in BOOLEAN :
       LET c == get_r2(clients, task[t].thread, created)
       IN  /\ clients' = c
           /\ \E exists \in (IF c.local[task[t].thread] # 0 /\ "128" \in storage[task[t].track]
                              THEN BOOLEAN ELSE {FALSE}) :
                IF exists THEN Tally(t, "skipped") ELSE Goto(t, "mkdir")
  /\ UNCHANGED <<pipeline, workers, stats, lock, main_pc, printed, storage, existing>>
  /\ UNCHANGED <<canonvars, enrichvars>>

\* audio_pipeline_parallel.py process_track, lines 136-137:
\* track_temp.mkdir(exist_ok=True), before the try statement; an OSError
\* leaves process_track
MakeTempDir(t) ==
  /\ task[t].pc = "mkdir"
  /\ \E made \in BOOLEAN :
       IF made THEN Goto(t, "download") ELSE Goto(t, "raised")
  /\ UNCHANGED <<pipeline, workers, stats, lock, main_pc, printed, clients, storage, existing>>
  /\ UNCHANGED <<canonvars, enrichvars>>

\* cobalt_pipeline.py process_track, lines 169-173: get_audio_url_cobalt
\* returns a URL or None
GetAudioUrl(t) ==
  /\ task[t].pc = "get_url"
  /\ \E found \in BOOLEAN :
       IF found THEN Goto(t, "download") ELSE Tally(t, "failed")
  /\ UNCHANGED <<pipeline, workers, stats, lock, main_pc, printed, clients, storage, existing>>
  /\ UNCHANGED <<canonvars, enrichvars>>

\* What the download step can end with: download_from_youtube and
\* download_audio catch every exception, hacker_mode.py's subprocess.run and
\* rename do not
DownloadOutcomes ==
  IF pipeline = "hacker_mode" THEN {"file", "no_file", "exception"} ELSE {"file", "no_file"}

\* The download: audio_pipeline_parallel.py lines 141-145, hacker_mode.py
\* lines 77-93 and 103-111, cobalt_pipeline.py lines 176-180
Download(t) ==
  /\ task[t].pc = "download"
  /\ \E outcome \in DownloadOutcomes :
       IF outcome = "file" THEN Goto(t, "upload") ELSE Tally(t, "failed")
  /\ UNCHANGED <<pipeline, workers, stats, lock, main_pc, printed, clients, storage, existing>>
  /\ UNCHANGED <<canonvars, enrichvars>>

\* The upload and the cleanup. audio_pipeline_parallel.py lines 148-173: each
\* quality tier is converted and uploaded or not, the cleanup is guarded, and
\* the track succeeds with one tier uploaded. hacker_mode.py lines 95-111 and
\* cobalt_pipeline.py lines 183-202: get_r2 or upload_file (or hacker_mode.py's
\* unlink) returns or raises into the except clause. A tier of
\* audio_pipeline_parallel.py whose conversion fails calls no upload_to_r2
Upload(t) ==
  /\ task[t].pc = "upload"
  /\ \E called, created, unlinked \in BOOLEAN :
       LET th == task[t].thread
           calls == called \/ pipeline # "audio_pipeline_parallel"
           c == IF calls THEN get_r2(clients, th, created) ELSE clients
       IN  /\ clients' = c
           /\ \E stored \in (IF calls /\ c.local[th] # 0 THEN UploadOutcomes ELSE {{}}) :
                /\ storage' = [storage EXCEPT ![task[t].track] = @ \cup stored]
                /\ IF pipeline = "audio_pipeline_parallel"
                   THEN LET uploaded == Cardinality(stored)
                        IN  Tally(t, IF uploaded > 0 THEN "success" ELSE "failed")
                   ELSE Tally(t, IF stored = QUALITY_TIERS /\ (unlinked \/ pipeline = "cobalt_pipeline")
                                 THEN "success" ELSE "failed")
  /\ UNCHANGED <<pipeline, workers, stats, lock, main_pc, printed, existing>>
  /\ UNCHANGED <<canonvars, enrichvars>>

\* `with lock:` waits until the lock is free
LockAcquire(t) ==
  /\ task[t].pc = "acquire"
  /\ lock = 0
  /\ lock' = t
  /\ Goto(t, "load")
  /\ UNCHANGED <<pipeline, workers, stats, main_pc, printed, clients, storage, existing>>
  /\ UNCHANGED <<canonvars, enrichvars>>

\* `stats[key] += 1`: the load
StatsLoad(t) ==
  /\ task[t].pc = "load"
  /\ task' = [task EXCEPT ![t].pc = "store", ![t].reg = stats[task[t].key]]
  /\ UNCHANGED <<pipeline, workers, stats, lock, main_pc, printed, clients, storage, existing>>
  /\ UNCHANGED <<canonvars, enrichvars>>

\* `stats[key] += 1`: the store
StatsStore(t) ==
  /\ task[t].pc = "store"
  /\ stats' = [stats EXCEPT ![task[t].key] = task[t].reg + 1]
  /\ task' = [task EXCEPT ![t].pc = "release", ![t].tallied = @ + 1]
  /\ UNCHANGED <<pipeline, workers, lock, main_pc, printed, clients, storage, existing>>
  /\ UNCHANGED <<canonvars, enrichvars>>

\* The end of the with block and the return: the future is done
LockRelease(t) ==
  /\ task[t].pc = "release"
  /\ lock' = 0
  /\ Goto(t, "done")
  /\ UNCHANGED <<pipeline, workers, stats, main_pc, printed, clients, storage, existing>>
  /\ UNCHANGED <<canonvars, enrichvars>>

\* main: as_completed yields a future that is done and future.result() is
\* printed, or raises what process_track raised
TakeResult(t) ==
  /\ main_pc = "as_completed"
  /\ t \notin printed
  /\ task[t].pc \in {"done", "raised"}
  /\ IF task[t].pc = "done"
     THEN printed' = printed \cup {t} /\ UNCHANGED main_pc
     ELSE main_pc' = "unwinding" /\ UNCHANGED printed
  /\ UNCHANGED <<pipeline, workers, task, stats, lock, clients, storage, existing>>
  /\ UNCHANGED <<canonvars, enrichvars>>

\* main: every result is printed, the with block ends and the summary is
\* printed
Summary ==
  /\ main_pc = "as_completed"
  /\ printed = DOMAIN task
  /\ main_pc' = "summary"
  /\ UNCHANGED <<pipeline, workers, task, stats, lock, printed, clients, storage, existing>>
  /\ UNCHANGED <<canonvars, enrichvars>>

\* main: the exception leaves the with block, whose exit waits for every
\* call (shutdown(wait=True)), and then leaves main: no summary is printed
Unwind ==
  /\ main_pc = "unwinding"
  /\ \A t \in DOMAIN task : task[t].pc \in {"done", "raised"}
  /\ main_pc' = "aborted"
  /\ UNCHANGED <<pipeline, workers, task, stats, lock, printed, clients, storage, existing>>
  /\ UNCHANGED <<canonvars, enrichvars>>

\* The pipeline is run again, on the bucket the runs before have left: a new
\* process, with its own counters and clients
NextRun ==
  /\ main_pc \in {"summary", "aborted", "returned"}
  /\ main_pc' = "submit"
  /\ task' = <<>>
  /\ stats' = [success |-> 0, failed |-> 0, skipped |-> 0]
  /\ printed' = {}
  /\ existing' = {}
  /\ clients' \in MainClients
  /\ UNCHANGED <<pipeline, workers, lock, storage>>
  /\ UNCHANGED <<canonvars, enrichvars>>

\* The steps of one run
PoolNext ==
  \/ Submit
  \/ \E t \in DOMAIN task : StartTask(t)
  \/ \E t \in DOMAIN task : CheckExists(t)
  \/ \E t \in DOMAIN task : MakeTempDir(t)
  \/ \E t \in DOMAIN task : GetAudioUrl(t)
  \/ \E t \in DOMAIN task : Download(t)
  \/ \E t \in DOMAIN task : Upload(t)
  \/ \E t \in DOMAIN task : LockAcquire(t)
  \/ \E t \in DOMAIN task : StatsLoad(t)
  \/ \E t \in DOMAIN task : StatsStore(t)
  \/ \E t \in DOMAIN task : LockRelease(t)
  \/ \E t \in DOMAIN task : TakeResult(t)
  \/ Summary
  \/ Unwind

\* One run of a pipeline
PoolSpec == PoolInit /\ [][PoolNext]_vars

RunsNext == PoolNext \/ NextRun

\* The runs of a pipeline, one after the other on the same bucket
RunsSpec == PoolInit /\ [][RunsNext]_vars

\* --------------------------------------------- the enrichment scripts

\* gemini_batch_classifier.py, sync_tiers_to_supabase.py's and canonizer.py's
\* fetch_all_tracks, and build_artist_master.py
Scripts == {"gemini_batch_classifier", "sync_tiers_to_supabase", "canonizer", "build_artist_master"}

\* The scripts with a fetch_all_tracks
FetchScripts == {"sync_tiers_to_supabase", "canonizer"}

\* Most rows of the store's table
MaxRows == 5

\* Largest batch_size (--batch-size, the page size); the page size of
\* canonizer.py is its local `limit`
MaxBatch == 3

\* Most objects in the array Gemini answers with
MaxResults == 2

\* The store serves the rows [offset, offset + limit) of its table
store_rows(off, limit) == [k \in 1..(Min(off + limit, rows) - Min(off, rows)) |-> off + k]

\* What one object of Gemini's array can be: a dict with or without
\* track_number and artist_tier, or no dict
GeminiItems ==
  { Obj([track_number |-> n]) : n \in 0..(MaxBatch + 1) }
  \cup { Obj([track_number |-> n, artist_tier |-> "A"]) : n \in 1..MaxBatch }
  \cup { Obj([artist_tier |-> "A"]), Num(1) }

\* What classify_with_gemini's request can come back with
GeminiReplies ==
  { [kind |-> "request_failed", items |-> <<>>], [kind |-> "no_json_array", items |-> <<>>] }
  \cup { [kind |-> "array", items |-> items] : items \in UNION { [1..k -> GeminiItems] : k \in 0..MaxResults } }

\* classify_with_gemini, lines 200-257: the decoded array, [] for a missing
\* key, a failed request, a text without an array or one json.loads rejects
classify_with_gemini(reply) == IF reply.kind = "array" THEN reply.items ELSE <<>>

\* The objects process_batch's loop reaches: all of them, or those before the
\* first that is no dict, where result.get raises
Reached(results) ==
  LET bad == {k \in DOMAIN results : results[k].t # "obj"}
  IN  IF bad = {} THEN results ELSE SubSeq(results, 1, SetMin(bad) - 1)

\* process_batch, lines 263-300: one enrichment per object whose track_number
\* points into the batch, in the order of the objects
process_batch(batch, results) ==
  LET idx(result) == GetKey(result.v, "track_number", 0) - 1
      kept == SelectSeq(Reached(results), LAMBDA result : 0 <= idx(result) /\ idx(result) < Len(batch))
  IN  [k \in DOMAIN kept |->
         [youtube_id |-> batch[idx(kept[k]) + 1],
          artist_tier |-> GetKey(kept[k].v, "artist_tier", "D")]]

\* The youtube_id of every entry
Ids(enriched) == [k \in DOMAIN enriched |-> enriched[k].youtube_id]

\* The state when one of the scripts starts
ScriptInit(scripts) ==
  /\ CanonIdle
  /\ PoolIdle
  /\ script \in scripts
  /\ step = "start"
  /\ rows \in (IF script = "build_artist_master" THEN {0} ELSE 0..MaxRows)
  /\ per_batch \in (IF script = "build_artist_master" THEN {0} ELSE 1..MaxBatch)
  /\ save_to_db \in (IF script = "gemini_batch_classifier" THEN BOOLEAN ELSE {FALSE})
  /\ all_tracks = <<>>
  /\ at = 0
  /\ requests = 0
  /\ failed = FALSE
  /\ all_enriched = <<>>
  /\ patched = <<>>
  /\ master = <<>>
  /\ saved = <<>>

\* gemini_batch_classifier.py or build_artist_master.py starts
EnrichInit == ScriptInit(Scripts \ FetchScripts)

\* fetch_all_tracks is called
FetchInit == ScriptInit(FetchScripts)

\* run_enrichment_pipeline, lines 317-336: without GOOGLE_API_KEY the script
\* exits; fetch_unclassified_tracks answers the rows of the store, or [] when
\* its request fails, and without tracks the pipeline returns
GeminiFetch ==
  /\ script = "gemini_batch_classifier"
  /\ step = "start"
  /\ \E key, ok \in BOOLEAN :
       IF ~key
       THEN step' = "exited" /\ UNCHANGED all_tracks
       ELSE /\ all_tracks' = IF ok THEN store_rows(0, rows) ELSE <<>>
            /\ step' = IF all_tracks' = <<>> THEN "returned" ELSE "batches"
  /\ UNCHANGED <<script, rows, per_batch, save_to_db, at, requests, failed, all_enriched, patched, master, saved>>
  /\ UNCHANGED <<canonvars, poolvars>>

\* run_enrichment_pipeline, lines 342-348, one turn of the loop over the
\* batches: process_batch appends an enrichment and sends a PATCH for each
\* object it keeps; an object that is no dict raises out of the pipeline
GeminiBatch ==
  /\ script = "gemini_batch_classifier"
  /\ step = "batches"
  /\ at < Len(all_tracks)
  /\ \E reply \in GeminiReplies :
       LET batch == SubSeq(all_tracks, at + 1, Min(at + per_batch, Len(all_tracks)))
           results == classify_with_gemini(reply)
           enriched == process_batch(batch, results)
       IN  /\ patched' = IF save_to_db THEN patched \o Ids(enriched) ELSE patched
           /\ IF Reached(results) # results
              THEN /\ step' = "raised"
                   /\ UNCHANGED <<all_enriched, at>>
              ELSE /\ all_enriched' = all_enriched \o enriched
                   /\ at' = at + per_batch
                   /\ UNCHANGED step
  /\ UNCHANGED <<script, rows, per_batch, save_to_db, all_tracks, requests, failed, master, saved>>
  /\ UNCHANGED <<canonvars, poolvars>>

\* run_enrichment_pipeline, lines 355-361: the loop is over, the totals are
\* printed
GeminiSummary ==
  /\ script = "gemini_batch_classifier"
  /\ step = "batches"
  /\ at >= Len(all_tracks)
  /\ step' = "complete"
  /\ UNCHANGED <<script, rows, per_batch, save_to_db, all_tracks, at, requests, failed, all_enriched, patched, master, saved>>
  /\ UNCHANGED <<canonvars, poolvars>>

\* An offset that leaves out the row after the page
next_offset_skipping(off, limit) == off + limit + 1

\* offset += batch_size (sync_tiers_to_supabase.py line 153), offset += limit
\* (canonizer.py line 262)
next_offset(off, limit) == off + limit

\* fetch_all_tracks, one turn of `while True`: sync_tiers_to_supabase.py lines
\* 124-160 stops at a failed request, an empty page and a short page,
\* canonizer.py lines 244-269 at a failed request and an empty page
FetchPage ==
  /\ script \in FetchScripts
  /\ step \in {"start", "loop"}
  /\ \E ok \in BOOLEAN :
       IF ~ok
       THEN /\ failed' = TRUE
            /\ step' = "returned"
            /\ UNCHANGED <<all_tracks, at, requests>>
       ELSE LET batch == store_rows(at, per_batch)
            IN  /\ requests' = requests + 1
                /\ UNCHANGED failed
                /\ IF batch = <<>>
                   THEN /\ step' = "returned"
                        /\ UNCHANGED <<all_tracks, at>>
                   ELSE /\ all_tracks' = all_tracks \o batch
                        /\ at' = next_offset(at, per_batch)
                        /\ step' = IF script = "sync_tiers_to_supabase" /\ Len(batch) < per_batch
                                   THEN "returned" ELSE "loop"
  /\ UNCHANGED <<script, rows, per_batch, save_to_db, all_enriched, patched, master, saved>>
  /\ UNCHANGED <<canonvars, poolvars>>

\* build_artist_master.py TIER_A_ARTISTS (lines 23-165): the keys, in source order
MASTER_TIER_A_ARTISTS ==
  <<
    "burna boy", "wizkid", "davido", "rema", "asake", "tems", "ckay",
    "ayra starr", "fela kuti", "kizz daniel", "omah lay", "fireboy dml",
    "olamide", "tiwa savage", "yemi alade", "ruger", "p square", "dbanj",
    "2baba", "black coffee", "tyla", "kabza de small", "dj maphorisa",
    "master kg", "nasty c", "focalistic", "uncle waffles", "black sherif",
    "sarkodie", "stonebwoy", "shatta wale", "king promise", "kidi",
    "kuami eugene", "diamond platnumz", "harmonize", "rayvanny", "zuchu",
    "ali kiba", "fally ipupa", "koffi olomide", "innossb", "gims", "dadju",
    "papa wemba", "saifond balde", "azaya", "sekouba bambino", "mory kante",
    "soul bangs", "djanii alfa", "instinct killers", "straiker",
    "king alasko", "youssou ndour", "akon", "wally seck", "dj arafat",
    "magic system", "alpha blondy", "sauti sol", "nyashinski", "salif keita",
    "amadou mariam", "teddy afro"
  >>

\* build_artist_master.py TIER_B_ARTISTS (lines 167-234): the keys, in source order
MASTER_TIER_B_ARTISTS ==
  <<
    "adekunle gold", "simi", "wande coal", "flavour", "tekno", "phyno",
    "zlatan", "mr eazi", "joeboy", "bnxn", "victony", "pheelz",
    "bella shmurda", "seyi vibez", "oxlade", "mayorkun", "falz",
    "patoranking", "timaya", "young stunna", "dbn gogo", "cassper nyovest",
    "makhadzi", "a reece", "takana zion", "mamady keita", "koury simple",
    "bembeya jazz", "mc freshh", "thiird", "maxim bk", "wada du game",
    "hezbo rap", "nandy", "mbosso", "marioo", "ferre gola",
    "heritier watanabe", "werrason", "aya nakamura", "damso", "gyakie",
    "camidoh", "medikal", "kwesi arthur", "r2bees"
  >>

\* build_artist_master.py ALIASES (lines 239-261): alias and canonical name, in
\* source order
ALIASES ==
  <<
    <<"burnaboy", "burna boy">>,
    <<"wiz kid", "wizkid">>,
    <<"starboy", "wizkid">>,
    <<"obo", "davido">>,
    <<"fela", "fela kuti">>,
    <<"diamond", "diamond platnumz">>,
    <<"blackcoffee", "black coffee">>,
    <<"psquare", "p square">>,
    <<"p-square", "p square">>,
    <<"innoss b", "innossb">>,
    <<"innoss'b", "innossb">>,
    <<"youssou n dour", "youssou ndour">>,
    <<"youssou n'dour", "youssou ndour">>,
    <<"mory kante", "mory kante">>,
    <<"sekouba", "sekouba bambino">>,
    <<"bambino", "sekouba bambino">>,
    <<"maitre gims", "gims">>,
    <<"maitre gim", "gims">>,
    <<"dj khaled", "khaled">>,
    <<"buju bnxn", "bnxn">>,
    <<"buju", "bnxn">>
  >>

\* master[artist] = {...}: the entry of a curated artist
master_entry(tier) == [tier |-> tier, is_alias |-> FALSE, alias_of |-> ""]

\* build_artist_master, lines 348-353: the master after the first n aliases
RECURSIVE add_aliases(_, _)
add_aliases(m, n) ==
  IF n = 0 THEN m
  ELSE LET before == add_aliases(m, n - 1)
           alias == ALIASES[n][1]
           canonical == ALIASES[n][2]
       IN  IF canonical \in DOMAIN before
           THEN [k \in DOMAIN before \cup {alias} |->
                   IF k = alias
                   THEN [before[canonical] EXCEPT !.is_alias = TRUE, !.alias_of = canonical]
                   ELSE before[k]]
           ELSE before

\* build_artist_master, lines 292-355: the tier A entries, then the tier B
\* entries over them, then the aliases
build_artist_master ==
  LET tier_a == [k \in Range(MASTER_TIER_A_ARTISTS) |-> master_entry("A")]
      tier_b == [k \in Range(MASTER_TIER_A_ARTISTS) \cup Range(MASTER_TIER_B_ARTISTS) |->
                   IF k \in Range(MASTER_TIER_B_ARTISTS) THEN master_entry("B") ELSE tier_a[k]]
  IN  add_aliases(tier_b, Len(ALIASES))

\* len([a for a in master.values() if pred(a)])
count_entries(m, pred(_)) == Cardinality({k \in DOMAIN m : pred(m[k])})

\* __main__: master = build_artist_master()
BuildMaster ==
  /\ script = "build_artist_master"
  /\ step = "start"
  /\ master' = build_artist_master
  /\ step' = "built"
  /\ UNCHANGED <<script, rows, per_batch, save_to_db, all_tracks, at, requests, failed, all_enriched, patched, saved>>
  /\ UNCHANGED <<canonvars, poolvars>>

\* save_artist_master, lines 357-371: the counts of the file
SaveMaster ==
  /\ script = "build_artist_master"
  /\ step = "built"
  /\ saved' = [total_artists |-> count_entries(master, LAMBDA a : ~a.is_alias),
               total_with_aliases |-> Cardinality(DOMAIN master),
               tier_breakdown |->
                 [A |-> count_entries(master, LAMBDA a : a.tier = "A" /\ ~a.is_alias),
                  B |-> count_entries(master, LAMBDA a : a.tier = "B" /\ ~a.is_alias)]]
  /\ step' = "saved"
  /\ UNCHANGED <<script, rows, per_batch, save_to_db, all_tracks, at, requests, failed, all_enriched, patched, master>>
  /\ UNCHANGED <<canonvars, poolvars>>

EnrichNext ==
  \/ GeminiFetch
  \/ GeminiBatch
  \/ GeminiSummary
  \/ BuildMaster
  \/ SaveMaster

EnrichSpec == EnrichInit /\ [][EnrichNext]_vars

\* fetch_all_tracks keeps taking the turns of its loop: the process runs and
\* every request is answered or fails within its timeout
FetchSpec == FetchInit /\ [][FetchPage]_vars /\ WF_vars(FetchPage)

\* ------------------------------------------------------------ the claims

\* Every record the programs hold or have written
Emitted == Range(all_results) \cup Range(matched) \cup Range(output.tracks)

\* The records of canonizer_v4.py, as classify_track returned them or as
\* match_tracks rewrote them
V4Records == {r \in Emitted : "classified_by" \in DOMAIN r}

\* The records of canonizer.py
V1Records == {r \in Emitted : "artist_tier" \in DOMAIN r}

\* The records classify_with_patterns alone decided, before match_tracks
PatternRecords == {r \in Range(all_results) : "classified_by" \in DOMAIN r /\ r.classified_by = "pattern"}

\* ECHO < ARCHIVE < DEEP_CUT < ESSENTIAL < CORE
CanonRank(level) ==
  CASE level = "ECHO" -> 0
    [] level = "ARCHIVE" -> 1
    [] level = "DEEP_CUT" -> 2
    [] level = "ESSENTIAL" -> 3
    [] level = "CORE" -> 4

\* C1: in every record emitted by canonizer.py's classify_track, by
\* canonizer_v4.py's classify_track (with or without an LLM object) and by
\* match_tracks after it rewrote canon_level, is_echo is true exactly when
\* canon_level is ECHO.
C1_IsEchoIffCanonEcho ==
  \A r \in Emitted : r.is_echo = (r.canon_level = "ECHO")

\* C2: in every record of canonizer_v4.py's classify_track, also one an LLM
\* object was laid over, cultural_significance.overall is the mean of the four
\* sub-scores and aesthetic_merit.overall the mean of the three.
C2_OverallIsMean ==
  \A r \in Range(all_results) :
    "classified_by" \in DOMAIN r =>
      LET cs == r.cultural_significance
          am == r.aesthetic_merit
      IN  /\ cs.overall.num * 4 = (cs.historical + cs.social + cs.diasporic + cs.preservational) * cs.overall.den
          /\ am.overall.num * 3 = (am.innovation + am.craft + am.influence) * am.overall.den

\* C3: between two records classify_with_patterns gave the same tier, the one
\* with no more views has no higher canon level.
C3_CanonMonotoneInViews ==
  \A r1, r2 \in PatternRecords :
    (r1.tier = r2.tier /\ r1.view_count <= r2.view_count)
      => CanonRank(r1.canon_level) <= CanonRank(r2.canon_level)

\* C4: a record classify_with_patterns gave tier A has canon level ESSENTIAL
\* or CORE, whatever its view count.
C4_TierAAtLeastEssential ==
  \A r \in PatternRecords : r.tier = "A" => r.canon_level \in {"ESSENTIAL", "CORE"}

\* C5: a record classify_with_patterns gave tier D has canon level ECHO,
\* ARCHIVE or DEEP_CUT, never ESSENTIAL or CORE.
C5_TierDAtMostDeepCut ==
  \A r \in PatternRecords : r.tier = "D" => r.canon_level \in {"ECHO", "ARCHIVE", "DEEP_CUT"}

\* C5 happens: a tier D record with more views than the highest threshold of
\* its tier
C5_TierDSeen ==
  \E r \in PatternRecords : r.tier = "D" /\ r.view_count > 50000000 /\ r.canon_level = "DEEP_CUT"

\* C6: every track run_pipeline fetched has exactly one record, in order, also
\* when its title, artist, channel_title or view_count is absent or null; no
\* such row makes the classification raise, and total_tracks in the output is
\* the number of tracks fetched. (A table of the model fits one batch, so the
\* tracks fetched are the batch.)
C6_EveryTrackOneResult ==
  /\ pc = "raised" => raised # "AttributeError: lower"
  /\ pc = "classify" =>
       /\ Len(all_results) = i
       /\ \A k \in 1..i : all_results[k].id = Get(tracks[k], "youtube_id", Str(<<>>)).v
  /\ output.version = "v4" => output.total_tracks = Len(tracks)

\* C7: a record for an empty artist has tier D and, with no views, canon level
\* ECHO, in canonizer_v4.py and in canonizer.py; with the title
\* 'Official Remix ft. X' its content type is remix.
C7_EmptyArtistIsTierD ==
  /\ \A r \in PatternRecords :
       r.artist = <<>> =>
         /\ r.tier = "D"
         /\ r.view_count = 0 => r.canon_level = "ECHO"
         /\ r.title = TxtOfficialRemix => r.content_type = "remix"
  /\ \A r \in V1Records :
       r.artist = <<>> => r.artist_tier = "D" /\ r.canon_level = "ECHO"

\* The replies of the LLM request that carry no classification: a failed
\* request, a text without a JSON array, an array without an object in it
UnusableReplies ==
  {reply \in LlmReplies :
     reply.kind # "array" \/ \A k \in DOMAIN reply.items : reply.items[k].t # "obj"}

\* C8: when the key is missing the LLM stage is off; when the request fails or
\* its reply is unusable the batch goes on to its classification with no LLM
\* object kept; and the records of a batch without LLM objects are the
\* pattern-only ones, classified_by pattern.
C8_UnusableLlmFallsBack ==
  /\ [](use_llm /\ pc # "start" => api_key)
  /\ []((pc = "classify" /\ llm_results = <<>>) =>
          \A k \in 1..i : /\ all_results[k] = pattern_result(tracks[k])
                          /\ all_results[k].classified_by = "pattern")
  /\ [][\A reply \in UnusableReplies :
          LlmClassifyWith(reply) => (pc' = "classify" /\ llm_results' = <<>>)]_vars

\* C9: every record of canonizer_v4.py's classify_track, with or without an
\* LLM object, has a tier among A, B, C, D and a canon level among the five.
C9_TierAndCanonInRange ==
  \A r \in Range(all_results) :
    "classified_by" \in DOMAIN r => r.tier \in TIERS /\ r.canon_level \in CANON_LEVELS

\* How many records of the batch have no more views than record k
CountAtMost(results, k) ==
  Cardinality({j \in DOMAIN results : results[j].view_count <= results[k].view_count})

\* What C10 derives from its equation: equal views share a percentile, more
\* views never have a lower one, every percentile is within [0, 100], and the
\* most viewed record has 100
PercentileOrder(results) ==
  /\ \A j, k \in DOMAIN results :
       /\ results[j].view_count = results[k].view_count
            => results[j].view_percentile = results[k].view_percentile
       /\ results[j].view_count <= results[k].view_count
            => results[j].view_percentile.num <= results[k].view_percentile.num
  /\ \A k \in DOMAIN results :
       /\ results[k].view_percentile.den = 100
       /\ results[k].view_percentile.num \in 0..10000
       /\ CountAtMost(results, k) = Len(results) => results[k].view_percentile.num = 10000

\* C10 as stated: after calculate_view_percentiles on a non-empty batch every
\* view_percentile is exactly 100 * (records with no more views) / (batch size).
C10_PercentileExact ==
  (pc = "save" /\ all_results # <<>>) =>
    /\ \A k \in DOMAIN all_results :
         all_results[k].view_percentile.num * Len(all_results)
           = 100 * CountAtMost(all_results, k) * all_results[k].view_percentile.den
    /\ PercentileOrder(all_results)

\* C10, amended: after calculate_view_percentiles on a non-empty batch every
\* view_percentile is 100 * (records with no more views) / (batch size) rounded
\* to the nearest hundredth; equal views share a percentile, more views never
\* have a lower one, every percentile is within [0, 100], the most viewed
\* record has 100, and the views 0..9 get 10.0, 20.0, ..., 100.0.
C10_PercentileRounded ==
  (pc = "save" /\ all_results # <<>>) =>
    /\ \A k \in DOMAIN all_results :
         LET p == all_results[k].view_percentile.num
             d == p * Len(all_results) - 10000 * CountAtMost(all_results, k)
         IN  2 * d <= Len(all_results) /\ -2 * d <= Len(all_results)
    /\ PercentileOrder(all_results)
    /\ (Len(all_results) = 10 /\ \A k \in 1..10 : all_results[k].view_count = k - 1)
         => \A k \in 1..10 : all_results[k].view_percentile.num = 1000 * k

\* C10 happens: a batch of three with distinct views, whose percentiles are
\* 33.33, 66.67 and 100.0
C10_ThirdsSeen ==
  /\ pc = "save"
  /\ Len(all_results) = 3
  /\ {all_results[k].view_percentile.num : k \in 1..3} = {3333, 6667, 10000}

\* The text detect_content_type searches for a track: title, artist and
\* channel_title, lowercased
ContentText(track) ==
  Lower(Get(track, "title", Str(<<>>)).v \o SP \o Get(track, "artist", Str(<<>>)).v
        \o SP \o Get(track, "channel_title", Str(<<>>)).v)

ArtistText(track) == Lower(Get(track, "artist", Str(<<>>)).v)

\* The rules of the content type in the order they are tried
ContentRuleOrder ==
  <<"live", "remix", "dj_mix", "playlist_channel", "cover", "instrumental",
    "slowed", "acoustic", "extended">>

ContentRuleMatches(label, text, artist) ==
  CASE label = "live" -> AnyIn(live_indicators, text)
    [] label = "remix" -> AnyIn(remix_indicators, text)
    [] label = "dj_mix" -> AnyIn(dj_mix_indicators, text) /\ AnyIn(known_dj_tokens, artist)
    [] label = "playlist_channel" -> AnyIn(compilation_indicators, text)
    [] label = "cover" -> AnyIn(cover_indicators, text)
    [] label = "instrumental" -> AnyIn(instrumental_indicators, text)
    [] label = "slowed" -> AnyIn(slowed_indicators, text)
    [] label = "acoustic" -> AnyIn(acoustic_indicators, text)
    [] label = "extended" -> AnyIn(extended_indicators, text)

FirstContentRule(text, artist) ==
  LET hits == {k \in DOMAIN ContentRuleOrder : ContentRuleMatches(ContentRuleOrder[k], text, artist)}
  IN  IF hits = {} THEN "original" ELSE ContentRuleOrder[SetMin(hits)]

\* C11: the content type of every record is the label of the first rule, in
\* the order live, remix, dj_mix, playlist_channel, cover, instrumental,
\* slowed, acoustic, extended, whose keywords occur in the text, and original
\* when none does; dj_mix needs a DJ token in the artist besides its keyword,
\* and a text with a live and a remix keyword is live.
C11_FirstContentRuleWins ==
  pc = "classify" =>
    \A k \in 1..i :
      LET text == ContentText(tracks[k])
          artist == ArtistText(tracks[k])
      IN  /\ all_results[k].content_type = FirstContentRule(text, artist)
          /\ AnyIn(live_indicators, text) /\ AnyIn(remix_indicators, text)
               => all_results[k].content_type = "live"
          /\ all_results[k].content_type = "dj_mix" => AnyIn(known_dj_tokens, artist)

\* C11: a track with a live and a remix keyword was classified live
C11_LiveAndRemixSeen ==
  /\ pc = "classify"
  /\ \E k \in 1..i :
       LET text == ContentText(tracks[k])
       IN  /\ AnyIn(live_indicators, text) /\ AnyIn(remix_indicators, text)
           /\ all_results[k].content_type = "live"

\* The v4 half of C12: the tags of the title alone are among the record's
TitleTagsKeptV4 ==
  \A r \in Range(all_results) :
    "classified_by" \in DOMAIN r => Range(detect_cultural_tags(r.title)) \subseteq r.cultural_tags

\* The canonizer.py half of C12
TitleTagsKeptV1 ==
  \A r \in Range(all_results) :
    "artist_tier" \in DOMAIN r =>
      Range(v1_detect_cultural_tags(r.title, <<>>)) \subseteq Range(r.cultural_tags)

\* C12: every cultural tag detected for the title alone is also among the
\* tags detected for the title with the artist appended, in canonizer_v4.py
\* and in canonizer.py.
C12_TitleTagsKept == TitleTagsKeptV4 /\ TitleTagsKeptV1

\* re.sub(r'[^a-z0-9\s]', '', artist.lower()).strip() of a record's artist
NormalizedArtist(r) == Strip(DropNonAlnum(Lower(r.artist)))

\* The rows of CULTURAL_ICONS for a normalized artist name
IconRows(name) == {e \in Range(CULTURAL_ICONS) : e.name = name}

\* C13: a pattern record whose normalized artist is in the cultural icons
\* table has tier A and the table's four cultural sub-scores, whatever tier
\* the A and B lists give the artist.
C13_IconIsTierAWithTableScores ==
  \A r \in PatternRecords :
    \A e \in IconRows(NormalizedArtist(r)) :
      /\ r.tier = "A"
      /\ r.cultural_significance.historical = e.historical
      /\ r.cultural_significance.social = e.social
      /\ r.cultural_significance.diasporic = e.diasporic
      /\ r.cultural_significance.preservational = e.preservational

\* C13: an icon the A and B lists give tier D was classified
C13_IconOutsideListsSeen ==
  \E r \in PatternRecords :
    /\ IconRows(NormalizedArtist(r)) # {}
    /\ known_artist_tier(Lower(r.artist), NormalizedArtist(r)) = "D"
    /\ r.tier = "A"
    /\ r.cultural_significance.historical = 5

\* The default tags build_artist_master.py's icons table gives a normalized
\* artist name
DefaultIconTags(name) ==
  UNION {e.tags : e \in {x \in Range(MASTER_CULTURAL_ICONS) : x.name = name}}

\* C14: the cultural_tags of a pattern record for a cultural icon include the
\* icon's default tags, also when no tag keyword occurs in the title or the
\* artist; the record for 'Zombie' by 'Fela Kuti' has the tag revolution.
C14_IconDefaultTags ==
  \A r \in PatternRecords :
    /\ IconRows(NormalizedArtist(r)) # {} =>
         DefaultIconTags(NormalizedArtist(r)) \subseteq r.cultural_tags
    /\ r.artist = TxtFelaKuti /\ r.title = TxtZombie => "revolution" \in r.cultural_tags

\* The decision table of the canon level: for each tier the thresholds from
\* the highest down with the level each gives, and the level below them all
CanonTable(tier) ==
  CASE tier = "A" -> [rows |-> <<[bound |-> 100000000, level |-> "CORE"],
                                 [bound |-> 10000000, level |-> "ESSENTIAL"],
                                 [bound |-> 1000000, level |-> "DEEP_CUT"]>>,
                      floor |-> "ESSENTIAL"]
    [] tier = "B" -> [rows |-> <<[bound |-> 50000000, level |-> "CORE"],
                                 [bound |-> 5000000, level |-> "ESSENTIAL"],
                                 [bound |-> 500000, level |-> "DEEP_CUT"]>>,
                      floor |-> "DEEP_CUT"]
    [] tier = "C" -> [rows |-> <<[bound |-> 10000000, level |-> "ESSENTIAL"],
                                 [bound |-> 1000000, level |-> "DEEP_CUT"]>>,
                      floor |-> "ARCHIVE"]
    [] OTHER -> [rows |-> <<[bound |-> 5000000, level |-> "DEEP_CUT"],
                            [bound |-> 100000, level |-> "ARCHIVE"]>>,
                 floor |-> "ECHO"]

\* The level of the first row of the table the view count reaches: with
\* equal_counts a view count equal to the bound reaches it
TableLevel(tier, view_count, equal_counts) ==
  LET t == CanonTable(tier)
      reached == {k \in DOMAIN t.rows :
                    \/ view_count > t.rows[k].bound
                    \/ equal_counts /\ view_count = t.rows[k].bound}
  IN  IF reached = {} THEN t.floor ELSE t.rows[SetMin(reached)].level

\* C17: the canon level of a pattern record follows the decision table with
\* inclusive (>=) lower bounds: tier A with exactly 100,000,000 views is CORE,
\* tier B with exactly 5,000,000 is ESSENTIAL, tier D with exactly 100,000 is
\* ARCHIVE.
C17_CanonInclusiveBounds ==
  \A r \in PatternRecords :
    /\ r.canon_level = TableLevel(r.tier, r.view_count, TRUE)
    /\ r.tier = "A" /\ r.view_count = 100000000 => r.canon_level = "CORE"
    /\ r.tier = "B" /\ r.view_count = 5000000 => r.canon_level = "ESSENTIAL"
    /\ r.tier = "D" /\ r.view_count = 100000 => r.canon_level = "ARCHIVE"

\* C17 as amended: the canon level of a pattern record follows the decision
\* table with exclusive (>) lower bounds: tier A with exactly 100,000,000
\* views is ESSENTIAL, tier B with exactly 5,000,000 is DEEP_CUT, tier D with
\* exactly 100,000 is ECHO.
C17_CanonExclusiveBounds ==
  \A r \in PatternRecords :
    /\ r.canon_level = TableLevel(r.tier, r.view_count, FALSE)
    /\ r.tier = "A" /\ r.view_count = 100000000 => r.canon_level = "ESSENTIAL"
    /\ r.tier = "B" /\ r.view_count = 5000000 => r.canon_level = "DEEP_CUT"
    /\ r.tier = "D" /\ r.view_count = 100000 => r.canon_level = "ECHO"

\* C17: a tier A track with exactly 100,000,000 views was classified
C17_BoundaryViewsSeen ==
  \E r \in PatternRecords :
    r.tier = "A" /\ r.view_count = 100000000 /\ r.canon_level = "ESSENTIAL"

\* The artist of a record, lowercased, reaches the fallback pass of the tier
\* resolution: neither list holds its normalized name or a name it contains
ReachesFallback(r) ==
  LET artist == Lower(r.artist)
      hit(names) == NormalizedArtist(r) \in names \/ \E a \in names : IsIn(a, artist)
  IN  ~hit(TIER_A_ARTISTS) /\ ~hit(TIER_B_ARTISTS)

\* Some name of the list contains the artist or is contained in it
PartialMatch(r, names) ==
  \E k \in names : IsIn(k, Lower(r.artist)) \/ IsIn(Lower(r.artist), k)

\* C18: the tier resolution is first-match-wins: an artist that reaches the
\* fallback pass and partially matches an A-tier name gets tier A, also when
\* it partially matches a B-tier name too; the B fallback applies only when
\* no A-tier name matched. (Cultural icons, which the override makes tier A,
\* are left aside.)
C18_FallbackAWins ==
  \A r \in PatternRecords :
    ReachesFallback(r) /\ IconRows(NormalizedArtist(r)) = {} =>
      r.tier = IF PartialMatch(r, TIER_A_ARTISTS) THEN "A"
               ELSE IF PartialMatch(r, TIER_B_ARTISTS) THEN "B"
               ELSE "D"

\* C19: in every pattern record the aesthetic craft and influence are a
\* function of the final tier: 4 and 3 for tier A, 3 and 2 for tier B, 0 and
\* 0 otherwise, whichever step of the tier resolution produced the tier.
C19_CraftFollowsTier ==
  \A r \in PatternRecords :
    /\ r.aesthetic_merit.craft = (IF r.tier = "A" THEN 4 ELSE IF r.tier = "B" THEN 3 ELSE 0)
    /\ r.aesthetic_merit.influence = (IF r.tier = "A" THEN 3 ELSE IF r.tier = "B" THEN 2 ELSE 0)

\* The value the LLM object supplies for a sub-score of a group, if it does
Supplied(llm, group, key) ==
  /\ group \in DOMAIN llm
  /\ llm[group].t = "obj"
  /\ key \in DOMAIN llm[group].v

\* A sub-score of the merged record is the LLM object's when it supplies one
\* and the pattern result's when it does not
SubScoreMerged(r, p, llm, group, key) ==
  r[group][key] = IF Supplied(llm, group, key) THEN llm[group].v[key] ELSE p[group][key]

\* C20: when an LLM object is laid over a pattern result, its tier and canon
\* level replace the pattern values, each cultural and aesthetic sub-score is
\* replaced only where the object supplies it, and content_type, view_count,
\* accessibility, era, id, title and artist keep their pattern values, as do
\* the sub-scores, the tier and the canon level the object does not supply.
C20_LlmOverlayKeepsTheRest ==
  pc = "classify" =>
    \A k \in 1..i :
      truthy(llm_result_for(k - 1)) =>
        LET llm == llm_result_for(k - 1).v
            p == pattern_result(tracks[k])
            r == all_results[k]
        IN  /\ r.tier = IF "artist_tier" \in DOMAIN llm THEN llm.artist_tier ELSE p.tier
            /\ r.canon_level = IF "canon_level" \in DOMAIN llm THEN llm.canon_level ELSE p.canon_level
            /\ \A key \in {"historical", "social", "diasporic", "preservational"} :
                 SubScoreMerged(r, p, llm, "cultural_significance", key)
            /\ \A key \in {"innovation", "craft", "influence"} :
                 SubScoreMerged(r, p, llm, "aesthetic_merit", key)
            /\ r.content_type = p.content_type
            /\ r.view_count = p.view_count
            /\ r.accessibility = p.accessibility
            /\ r.era = p.era
            /\ r.id = p.id /\ r.title = p.title /\ r.artist = p.artist

\* C20: an LLM object with a tier, a canon level and some of the sub-scores
\* was laid over a pattern result with other values: the supplied historical
\* score replaced the pattern's, the diasporic score it lacks was kept
C20_PartialOverlaySeen ==
  /\ pc = "classify"
  /\ \E k \in 1..i :
       /\ truthy(llm_result_for(k - 1))
       /\ LET llm == llm_result_for(k - 1).v
              p == pattern_result(tracks[k])
              r == all_results[k]
          IN  /\ "artist_tier" \in DOMAIN llm /\ r.tier # p.tier
              /\ Supplied(llm, "cultural_significance", "social")
              /\ r.cultural_significance.social # p.cultural_significance.social
              /\ ~Supplied(llm, "cultural_significance", "diasporic")
              /\ r.cultural_significance.diasporic = 5

\* The stores to a counter the calls 1..n have made
RECURSIVE TalliedUpTo(_)
TalliedUpTo(n) == IF n = 0 THEN 0 ELSE task[n].tallied + TalliedUpTo(n - 1)

StatsSum == stats.success + stats.failed + stats.skipped

\* Every call has returned or raised: the pool can shut down
PoolFinished == task # <<>> /\ \A t \in DOMAIN task : task[t].pc \in {"done", "raised"}

\* The lock-guarded half of C15: no store to a counter is lost, under every
\* interleaving the counters add up to the stores made
NoIncrementLost == StatsSum = TalliedUpTo(Len(task))

\* C15 for hacker_mode.py and cobalt_pipeline.py alone
TalliedOnceOutsideAudio ==
  pipeline \in {"hacker_mode", "cobalt_pipeline"} =>
    /\ \A t \in DOMAIN task : task[t].tallied <= 1
    /\ \A t \in DOMAIN task : task[t].pc \in {"done", "raised"} => task[t].tallied = 1
    /\ PoolFinished => StatsSum = Len(task)

\* C15: in each of the three pipelines, under every interleaving of the
\* worker threads, every submitted track adds to exactly one of the counters
\* success, failed, skipped, exactly once, and no increment is lost; when the
\* pool has finished the three counters add up to the number of tracks
\* submitted.
C15_EveryTrackTalliedOnce ==
  /\ \A t \in DOMAIN task : task[t].tallied <= 1
  /\ \A t \in DOMAIN task : task[t].pc \in {"done", "raised"} => task[t].tallied = 1
  /\ NoIncrementLost
  /\ PoolFinished => StatsSum = Len(task)

\* C16: in audio_pipeline_parallel.py a failure while one track is processed
\* (existence check, temp directory, download, transcode, upload, cleanup)
\* never aborts the batch: no exception leaves process_track, the track is
\* tallied once at most and not processed again, main is never unwound by a
\* worker's exception, and a run that has come to its end has printed the
\* summary.
C16_FailureNeverAborts ==
  pipeline = "audio_pipeline_parallel" =>
    /\ \A t \in DOMAIN task : task[t].pc # "raised"
    /\ \A t \in DOMAIN task : task[t].tallied <= 1
    /\ main_pc \notin {"unwinding", "aborted"}
    /\ ~(ENABLED PoolNext) => main_pc = "summary"

\* The records match_tracks has rewritten
MatchedRecords == {r \in Range(matched) \cup Range(output.tracks) : "tier_source" \in DOMAIN r}

\* The tiers classify_with_patterns and canonizer.py's get_artist_tier gave
TextTiers ==
  {r.tier : r \in PatternRecords} \cup {r.artist_tier : r \in V1Records}

\* C21: no tier derived from matching artist names or keywords is C: the
\* tiers of classify_with_patterns, of canonizer.py's get_artist_tier and of
\* match_tracks' name lookup are all among A, B, D.
C21_NoTierCFromNames ==
  /\ TextTiers \subseteq {"A", "B", "D"}
  /\ \A r \in MatchedRecords : r.tier \in {"A", "B", "D"}

\* C21 as amended: the tiers of classify_with_patterns and of canonizer.py's
\* get_artist_tier are among A, B, D; match_tracks gives a track the tier its
\* artist is listed under in the lookup, which is A, B or C, and D when the
\* lookup has no entry.
C21_TierCOnlyFromLookup ==
  /\ TextTiers \subseteq {"A", "B", "D"}
  /\ \A r \in MatchedRecords :
       /\ r.tier \in {"A", "B", "C", "D"}
       /\ r.tier = "D" <=> r.tier_source = "default"
       /\ r.tier # "D" =>
            \E k \in DOMAIN lookup :
              lookup[k].tier = r.tier /\ Str(lookup[k].original) = r.matched_artist

\* C21: match_tracks gave a track tier C, and classify_with_patterns had
\* given it tier D
C21_TierCMatched ==
  \E k \in 1..i :
    /\ pc = "match"
    /\ matched[k].tier = "C"
    /\ all_results[k].tier = "D"


\* ---- C22 ----
\* The thread that made the client h
MadeBy(h) == clients.made[h]

\* C22: every object-storage client is made and used by one thread only: a
\* call of get_r2_client / get_r2 on a thread uses the client that thread made
\* itself, and no two threads hold the same client
C22_ClientsStayOnTheirThread ==
  pipeline # "none" =>
    /\ \A u \in clients.used : u[2] \in 1..Len(clients.made) /\ MadeBy(u[2]) = u[1]
    /\ \A th \in Threads : clients.local[th] # 0 => MadeBy(clients.local[th]) = th
    /\ \A th1, th2 \in Threads :
         th1 # th2 /\ clients.local[th1] # 0 => clients.local[th1] # clients.local[th2]

\* C22 happens: two worker threads have each made and used a client
C22_TwoThreadsUseClients ==
  /\ pipeline # "none"
  /\ \E th1, th2 \in 1..workers :
       /\ th1 # th2
       /\ <<th1, clients.local[th1]>> \in clients.used
       /\ <<th2, clients.local[th2]>> \in clients.used


\* ---- C23 ----
\* C23: an LLM classification is merged only into a track of the prompt: no
\* track at batch index LLM_BATCH_SIZE or above has an entry in llm_results,
\* and none is classified as 'hybrid'
C23_OverlayOnlyInsidePrompt ==
  pc = "classify" =>
    /\ \A k \in DOMAIN llm_results : k < LLM_BATCH_SIZE
    /\ \A k \in 1..i :
         k - 1 >= LLM_BATCH_SIZE => all_results[offset + k].classified_by # "hybrid"


\* ---- C24 ----
\* C24: in audio_pipeline_parallel.py, over the runs of the pipeline, every
\* track a run tallies as success or as skipped has both quality tiers in the
\* bucket: a track with one tier only is not counted as success and is not
\* skipped by a later run
C24_TalliedTracksHaveBothTiers ==
  pipeline = "audio_pipeline_parallel" =>
    \A t \in DOMAIN task :
      task[t].key \in {"success", "skipped"} => storage[task[t].track] = QUALITY_TIERS

\* ---- C25 ----
\* C25: in hacker_mode.py, over the runs of the pipeline, a track main filters
\* out as existing (listed under 128/) has its 64/ object too
C25_FilteredTracksHaveTier64 ==
  pipeline = "hacker_mode" => \A k \in existing : "64" \in storage[k]


\* ---- C26 ----
\* How often x is in the sequence
CountIn(seq, x) == Cardinality({k \in DOMAIN seq : seq[k] = x})

\* C26: in gemini_batch_classifier.py every track is enriched at most once in
\* a run, whatever track_number values Gemini returns: it is in all_enriched
\* once at most and one PATCH at most is sent for it, so that 'Successfully
\* enriched' is never more than 'Total tracks processed'
C26_EnrichedAtMostOnce ==
  script = "gemini_batch_classifier" =>
    /\ \A id \in 1..rows : CountIn(Ids(all_enriched), id) <= 1 /\ CountIn(patched, id) <= 1
    /\ Len(all_enriched) <= Len(all_tracks)

\* ---- C27 ----
\* The rows 1..n of the store's table
FirstRows(n) == [k \in 1..n |-> k]

\* C27: against a store that serves the rows [offset, offset + limit) of a
\* table, fetch_all_tracks of sync_tiers_to_supabase.py and of canonizer.py
\* ends, and returns every row once and in order, or, when a request fails,
\* the rows of the pages that were answered before
C27_FetchAllTracksEndsWithEveryRow ==
  /\ [](script \in FetchScripts /\ step = "returned" =>
          all_tracks = IF failed THEN FirstRows(Min(requests * per_batch, rows))
                       ELSE FirstRows(rows))
  /\ (script \in FetchScripts) ~> (step = "returned")

\* C27 happens: a table of several pages is fetched to its end
C27_SeveralPagesFetched ==
  /\ script \in FetchScripts
  /\ step = "returned"
  /\ ~failed
  /\ requests >= 3
  /\ Len(all_tracks) = rows

\* ---- C29 ----
\* The curated artists of build_artist_master.py
Curated == Range(MASTER_TIER_A_ARTISTS) \cup Range(MASTER_TIER_B_ARTISTS)

\* C29: every name of TIER_A_ARTISTS and TIER_B_ARTISTS is in the master table
\* as an entry that is no alias, and total_artists and tier_breakdown count
\* every curated artist
C29_CuratedArtistsAreNoAliases ==
  /\ step \in {"built", "saved"} /\ script = "build_artist_master" =>
       \A name \in Curated : name \in DOMAIN master /\ ~master[name].is_alias
  /\ step = "saved" /\ script = "build_artist_master" =>
       /\ saved.total_artists = Cardinality(Curated)
       /\ saved.tier_breakdown.A = Cardinality(Range(MASTER_TIER_A_ARTISTS))
       /\ saved.tier_breakdown.B = Cardinality(Range(MASTER_TIER_B_ARTISTS))


\* ---- C28 ----
\* The artists a data directory lists, each with the tier of its list
Listed(dir) ==
  UNION { {<<f.tier_a[k], "A">> : k \in DOMAIN f.tier_a}
          \cup {<<f.tier_b[k], "B">> : k \in DOMAIN f.tier_b}
          \cup {<<f.tier_c[k], "C">> : k \in DOMAIN f.tier_c} : f \in Range(dir.files) }
  \cup UNION { {<<c.tier_a[k], "A">> : k \in DOMAIN c.tier_a}
               \cup {<<c.tier_b[k], "B">> : k \in DOMAIN c.tier_b} : c \in Range(dir.extra) }

\* The keys an artist is looked up by: the normalized name and the same
\* without spaces
KeysOf(name) ==
  {maf_normalize_name(name), remove_spaces(maf_normalize_name(name))} \ {<<>>}

\* The best of some tiers: A before B before C
BestTier(T) == IF "A" \in T THEN "A" ELSE IF "B" \in T THEN "B" ELSE "C"

\* C28: when build_artist_lookup has loaded the files, every key that is the
\* normalized or the space-stripped name of a listed artist maps to the best
\* tier among the listed artists with that key: no lower-tier artist has
\* taken the place of a higher-tier entry
C28_LookupKeepsBestTier ==
  \A dir \in DataDirs :
    pc = "match" /\ lookup = build_artist_lookup(dir) =>
      \A key \in DOMAIN lookup :
        LET T == {l[2] : l \in {l \in Listed(dir) : key \in KeysOf(l[1])}}
        IN  T # {} => lookup[key].tier = BestTier(T)


====
